---- MODULE Spec2Model ----
(***************************************************************************)
(* caf_core: lease-guarded checkpoint store (plug_checkpoint,              *)
(* plug_checkpoint_lua) and the transactional message pipeline of a CA     *)
(* (gen_ca, plug_ca_inqueue, ca_default_methods, json_rpc).                *)
(*                                                                         *)
(* SpecStore : several nodes issue store calls against one redis server.   *)
(* SpecCA    : one CA hosted on node n1 processes a message; its persist   *)
(*             phase goes through the same store operators while node n2   *)
(*             competes for the lease.                                     *)
(* SpecQueue : the CA processes several messages through its input queue.  *)
(***************************************************************************)
EXTENDS Integers, Sequences, FiniteSets, TLC

\* ------------------------------------------------------------------ bounds
LeaseTimeout == 2
MaxCalls == 3
MaxMsgs == 2
MaxFaults == 1
MaxPendingUpdates == 2
MaxRival == 1
MaxLifeMsgs == 1
MaxGen == 2
MaxDataLen == 3
MaxInstance == 2
MaxObjs == 2
MaxCron == 2
MaxChecks == 2

\* ------------------------------------------------------------- vocabulary
Nodes == {"n1", "n2"}
Ids == {"a", "b"}
Nobody == "nobody"
NoData == <<>>
Values == {<<"s1", "v1">>}
Impls == {"lua", "watch"}
RenewLists == {<<"a">>, <<"a", "b">>}
ReadIds == {"a"}
LuaFalse == "false"
CaNode == "n1"
CaId == "a"
Rival == "n2"
Outcomes == {"notFound", "throws", "runs"}
\* a queue that runs two tasks at a time
QueueConcurrency_two == 1 + 1

\* async.queue(worker, 1)
QueueConcurrency == 1
StateAfter(m) == "s" \o ToString(m)
VersionAfter == "v1"
Msgs == 1..MaxMsgs
Undefined == "undefined"
Versions == {Undefined, "v1"}
Kinds == {"request", "notification"}
SystemCodes == {"noSuchCA", "shutdownCA", "checkpointFailure",
                "prepareFailure", "exceptionThrown", "commitFailure",
                "methodNotFound", "invalidParams"}

VARIABLES
    impl,            \* which checkpoint plug is configured
    maxPending,      \* coalescing.maxPendingUpdates (1 disables coalescing)
    owner,           \* redis key <id>   : owner node, Nobody when absent
    ttl,             \* remaining seconds of key <id>
    data,            \* redis key data:<id>, NoData when absent
    lastHolder,      \* history: last node that set key <id>
    sent,            \* lua: per node, scripts sent and not yet run by redis
    replies,         \* lua: per node, replies not yet delivered to the client
    pendingUpdates,  \* lua: per node, coalescing batch
    casq,            \* watch: per node, async.queue of CAS tasks
    caspc,           \* watch: per node, position of the head task
    watching,        \* watch: per node, keys under WATCH
    dirty,           \* watch: per node, a watched key was modified
    plan,            \* watch: per node, commands queued in the MULTI
    ncalls,          \* number of store calls issued so far
    ev,              \* last store event (history)
    ca               \* the CA hosted on CaNode: queue, pipeline, handler

vars == <<impl, maxPending, owner, ttl, data, lastHolder, sent, replies,
          pendingUpdates, casq, caspc, watching, dirty, plan, ncalls, ev, ca>>

\* ---------------------------------------------------------------- helpers
SeqToSet(s) == {s[i] : i \in DOMAIN s}

\* a store event: the call, what the caller is told (res, info), the data
\* records written, whether the ownership check ran in this step (checked),
\* whether the call completed (final), whether EXEC was discarded (disc)
NoEv == [node |-> "none", op |-> "none", ids |-> <<>>, res |-> "none",
         info |-> <<>>, wrote |-> {}, checked |-> FALSE, final |-> FALSE,
         disc |-> FALSE]

Event(n, op, ids, res, info, wrote, checked, final, disc) ==
    [node |-> n, op |-> op, ids |-> ids, res |-> res, info |-> info,
     wrote |-> wrote, checked |-> checked, final |-> final, disc |-> disc]

\* callbacks: id names the CA whose checkpoint the caller asked to write
EnvCb == [k |-> "env", m |-> 0, cbs |-> <<>>, id |-> "none"]
CallerCb(id) == [k |-> "env", m |-> 0, cbs |-> <<>>, id |-> id]
BatchCb(cbs) == [k |-> "batch", m |-> 0, cbs |-> cbs, id |-> "none"]
PersistCb(m) == [k |-> "persist", m |-> m, cbs |-> <<>>, id |-> CaId]
DestroyCb == [k |-> "destroy", m |-> 0, cbs |-> <<>>, id |-> CaId]
GrabCb(r, id) == [k |-> "grab", m |-> r, cbs |-> <<>>, id |-> id]
RenewCb == [k |-> "renew", m |-> 0, cbs |-> <<>>, id |-> "none"]
UpdCb(k, id) == [k |-> "upd", m |-> k, cbs |-> <<>>, id |-> id]

\* callbacks of the factory and of the lease cron, which read the reply
NodeCbKinds == {"grab", "renew"}

Task(op, ids, args, cb) == [op |-> op, ids |-> ids, args |-> args, cb |-> cb]

\* index of the last occurrence of k in ids (mset applies pairs in order)
LastIdx(ids, k) == CHOOSE i \in DOMAIN ids :
                       ids[i] = k /\ \A j \in DOMAIN ids : ids[j] = k => j <= i

\* first index whose owner differs from n (the key the preamble reports)
FirstNotOwned(own, ids, n) ==
    CHOOSE i \in DOMAIN ids :
        own[ids[i]] # n /\ \A j \in DOMAIN ids : own[ids[j]] # n => i <= j

\* ------------------------------------------------------------ JS values
\* JSON.stringify(x) is undefined for undefined; '' and undefined are falsy
NoBackup == [set |-> FALSE, v |-> ""]
JSONstringify(x) == IF x = Undefined THEN [set |-> FALSE, v |-> Undefined]
                    ELSE [set |-> TRUE, v |-> x]
JSONparse(b) == b.v
Truthy(x) == x \notin {Undefined, ""}

\* --------------------------------------------------------------- gen_ca
InitCA(version) ==
    [kind |-> [m \in Msgs |-> "unsent"],
     mpc |-> [m \in Msgs |-> "unsent"],
     queue |-> <<>>,
     workers |-> 0,
     isShutdown |-> FALSE,
     registered |-> TRUE,
     state |-> "s0",
     version |-> version,
     state_backup_ |-> NoBackup,
     version_backup_ |-> version,
     callResponse |-> [m |-> 0, r |-> Undefined],
     snap |-> [m \in Msgs |-> NoData],
     alreadyCalled |-> [m \in Msgs |-> FALSE],
     reply |-> [m \in Msgs |-> "none"],
     aflows |-> [m \in Msgs |-> <<>>],
     faults |-> 0,
     messagesProcessed |-> 0,
     lastMessagesProcessed |-> -1,
     \* history
     nprogress |-> 0,
     progress |-> TRUE,
     completedBefore |-> 0,
     s0 |-> [m \in Msgs |-> NoData],
     applied |-> {},
     nabort |-> [m \in Msgs |-> 0],
     ncb |-> [m \in Msgs |-> 0],
     destroy |-> "none",
     term |-> 0,
     termDone |-> FALSE,
     hist |-> [m \in Msgs |-> {}]]

Note(c, m, what) == [c EXCEPT !.hist[m] = @ \cup what]

\* gen_container.shutdown: children unregistered from that.$, then flag set
shutdown(c) == [c EXCEPT !.isShutdown = TRUE, !.registered = FALSE]

terminateCb0_noShutdown(c) == [c EXCEPT !.termDone = TRUE]

\* gen_ca.terminate, cb0: whatever the message replied, shutdown, then cb
terminateCb0(c) == [shutdown(c) EXCEPT !.termDone = TRUE]

\* the callback the caller of process(msg, cb) passed
cbTop(c, m) == IF c.term = m THEN terminateCb0(c) ELSE c

callJustOnce_everyCall(c, m, r) ==
    [c EXCEPT !.alreadyCalled[m] = TRUE, !.reply[m] = r,
              !.workers = @ - 1, !.ncb[m] = @ + 1]

\* callJustOnce(cb) followed by the async.queue task callback
callJustOnce(c, m, r) ==
    IF c.alreadyCalled[m]
    THEN c
    ELSE cbTop([c EXCEPT !.alreadyCalled[m] = TRUE, !.reply[m] = r,
                         !.workers = @ - 1, !.ncb[m] = @ + 1], m)

\* json_rpc.isSystemError / isAppReply of an object built from message m
isSystemError(c, m, error) == error \in SystemCodes /\ c.kind[m] = "request"
isAppReply(c, m, error) == error = "app" /\ c.kind[m] = "request"
getSystemErrorCode(c, m, error) ==
    IF isSystemError(c, m, error) THEN error ELSE Undefined

\* ca_default_methods.__ca_abort__ of the handler
ca_abort(c) ==
    [c EXCEPT !.state = IF c.state_backup_.set
                        THEN JSONparse(c.state_backup_) ELSE @,
              !.version = IF Truthy(c.version_backup_)
                          THEN c.version_backup_ ELSE @]

\* gen_ca abort(cb0): every child's __ca_abort__ is invoked
abort(c, m, error, exception) ==
    [ca_abort(c) EXCEPT
        !.aflows[m] = Append(@, [error |-> error, exception |-> exception]),
        !.nabort[m] = @ + 1,
        !.hist[m] = @ \cup {"abort"}]

handleError(c, m, error, exception) ==
    LET sysError == getSystemErrorCode(c, m, error)
    IN IF sysError \in {"commitFailure", "checkpointFailure"}
       THEN callJustOnce(Note(shutdown(c), m, {"forcedShutdown"}), m,
                         "shutdownCA")
       ELSE abort(c, m, error, exception)

\* dom.on('error'): dispose the domain and handle the exception
domError(c, m) == handleError(Note(c, m, {"exception"}), m, Undefined, TRUE)

\* handleError.cb0 / cb1: the children's abort has called back
abortDone(c, m, ok) ==
    LET ctx == Head(c.aflows[m])
        c1 == [c EXCEPT !.aflows[m] = Tail(@),
                        !.hist[m] = IF ok THEN @ \cup {"abortOk"} ELSE @]
    IN IF ~ok
       THEN callJustOnce(Note(shutdown(c1), m, {"abortErr", "forcedShutdown"}),
                         m, "shutdownCA")
       ELSE IF ctx.exception
       THEN callJustOnce(c1, m, "exceptionThrown")
       ELSE IF isAppReply(c1, m, ctx.error) \/ isSystemError(c1, m, ctx.error)
       THEN callJustOnce(c1, m, IF ctx.error = "app" THEN "appErr"
                                ELSE ctx.error)
       ELSE domError(c1, m)

process_alwaysEnqueues(c, m, k) ==
    [c EXCEPT !.kind[m] = k, !.mpc[m] = "queued", !.queue = Append(@, m),
              !.hist[m] = IF c.workers > 0 \/ c.queue # <<>>
                          THEN {"waited"} ELSE {}]

\* gen_ca.process
process(c, m, k) ==
    IF c.isShutdown \/ ~c.registered
    THEN cbTop([c EXCEPT !.kind[m] = k, !.mpc[m] = "refused",
                         !.reply[m] = "shutdownCA", !.alreadyCalled[m] = TRUE,
                         !.ncb[m] = 1], m)
    ELSE [c EXCEPT !.kind[m] = k, !.mpc[m] = "queued",
                   !.queue = Append(@, m),
                   !.hist[m] = IF c.workers > 0 \/ c.queue # <<>>
                               THEN {"waited"} ELSE {}]

\* ca_default_methods.__ca_begin__ of the handler
ca_begin(c) ==
    [c EXCEPT !.state_backup_ = JSONstringify(c.state),
              !.version_backup_ = c.version]

\* async.queue worker f(msg, cbTop): first waterfall step, begin(msg, cb0)
mainF(c) ==
    LET m == Head(c.queue)
    IN [ca_begin(c) EXCEPT !.queue = Tail(@), !.workers = @ + 1,
                           !.messagesProcessed = @ + 1,
                           !.mpc[m] = "begin",
                           !.s0[m] = <<c.state, c.version>>,
                           !.hist[m] = @ \cup {"begin"}]

\* third waterfall step: prepare(cb1); the handler's __ca_prepare__ snapshot
prepare(c, m, response) ==
    [c EXCEPT !.callResponse = [m |-> m, r |-> response],
              !.snap[m] = <<c.state, c.version>>,
              !.mpc[m] = "prepare",
              !.hist[m] = @ \cup {"prepare"}]

\* a cb1 that goes on to prepare whatever the method reported
dispatchCb_ignoresError(c, m, error) ==
    prepare(Note(c, m, IF error = Undefined THEN {"dispatchOk"}
                       ELSE IF error = "app" THEN {"dispatchErr", "appError"}
                       ELSE {"dispatchErr"}),
            m, IF c.kind[m] = "notification" THEN "null" ELSE "appOk")

\* cb1 of the dispatch step: error is Undefined, "app" or a system code
dispatchCb(c, m, error) ==
    LET c1 == Note(c, m, IF error = Undefined THEN {"dispatchOk"}
                         ELSE IF error = "app" THEN {"dispatchErr", "appError"}
                         ELSE {"dispatchErr"})
    IN IF c.kind[m] = "notification"
       THEN prepare(c1, m, "null")
       ELSE IF error # Undefined
       THEN handleError([c1 EXCEPT !.mpc[m] = "failed"], m, error, FALSE)
       ELSE prepare(c1, m, "appOk")

\* json_rpc.call(msg, that.$.handler, cb1)
call(c, m, out, st, ver) ==
    IF ~c.registered
    THEN dispatchCb(c, m, "noSuchCA")
    ELSE CASE out = "notFound" -> dispatchCb(c, m, "methodNotFound")
           [] out = "throws" ->
                dispatchCb(Note([c EXCEPT !.state = st, !.version = ver],
                                m, {"invoked", "threw"}), m, "invalidParams")
           [] out = "runs" ->
                Note([c EXCEPT !.state = st, !.version = ver,
                               !.mpc[m] = "dispatch"], m, {"invoked"})

beginDone_noShutdownTest(c, m, ok, out, st, ver) ==
    IF ~ok
    THEN handleError(Note([c EXCEPT !.mpc[m] = "failed"], m, {"beginErr"}),
                     m, "raw", FALSE)
    ELSE call(Note(c, m, {"beginDone"}), m, out, st, ver)

\* second waterfall step, after begin called back
beginDone(c, m, ok, out, st, ver) ==
    IF ~ok
    THEN handleError(Note([c EXCEPT !.mpc[m] = "failed"], m, {"beginErr"}),
                     m, "raw", FALSE)
    ELSE IF c.isShutdown
    THEN handleError(Note([c EXCEPT !.mpc[m] = "failed"], m,
                          {"beginDone", "shutdown1"}),
                     m, "shutdownCA", FALSE)
    ELSE call(Note(c, m, {"beginDone"}), m, out, st, ver)

\* fourth step: wrapSystemError(prepareFailure) or $.cp.updateState
prepareDone(c, m, ok) ==
    IF ok
    THEN Note([c EXCEPT !.mpc[m] = "persist"], m,
              {"prepareOk", "persistIssued"})
    ELSE handleError(Note([c EXCEPT !.mpc[m] = "failed"], m, {"prepareErr"}),
                     m, "prepareFailure", FALSE)

\* fifth step: wrapSystemError(checkpointFailure) or commit(cb1)
persistDone(c, m, err) ==
    IF err
    THEN handleError(Note([c EXCEPT !.mpc[m] = "failed"], m, {"persistErr"}),
                     m, "checkpointFailure", FALSE)
    ELSE Note([c EXCEPT !.mpc[m] = "commit"], m, {"persistOk", "commit"})

\* waterfall end: wrapSystemError(commitFailure) or cb(null, callResponse)
commitDone(c, m, ok) ==
    IF ok
    THEN callJustOnce(Note([c EXCEPT !.mpc[m] = "done"], m, {"commitOk"}),
                      m, c.callResponse.r)
    ELSE handleError(Note([c EXCEPT !.mpc[m] = "failed"], m, {"commitErr"}),
                     m, "commitFailure", FALSE)

\* completion callbacks handed to the checkpoint plug
cbInvoke(c, cb, err) ==
    IF cb.k = "persist" THEN persistDone(c, cb.m, err)
    ELSE IF cb.k = "destroy"
    THEN [c EXCEPT !.destroy = IF err THEN "failed" ELSE "done"]
    ELSE IF cb.k = "upd"
    THEN [c EXCEPT !.ndone[cb.m] = @ + 1]
    ELSE c

RECURSIVE cbAll(_, _, _, _)
cbAll(c, cbs, err, k) ==
    IF k = 0 THEN c ELSE cbInvoke(cbAll(c, cbs, err, k - 1), cbs[k], err)

\* history: the store applied the write carrying the snapshot of message m
PersistMsgs(cb) ==
    IF cb.k = "persist" THEN {cb.m}
    ELSE {cb.cbs[i].m : i \in {j \in DOMAIN cb.cbs : cb.cbs[j].k = "persist"}}

markApplied(c, cb, wrote) ==
    IF wrote THEN [c EXCEPT !.applied = @ \cup PersistMsgs(cb)] ELSE c

\* --------------------------------------------------------- redis commands
\* SET/EXPIRE of key <id> by any connection marks every WATCH of that key
Touch(keys, exceptNode) ==
    [m \in Nodes |-> IF m # exceptNode /\ watching[m] \cap keys # {}
                     THEN TRUE ELSE dirty[m]]

\* ------------------------------------------------------------ lua scripts
\* a preamble that looks at the first key only
luaPreamble_firstKeyOnly(n, ids) == owner[ids[1]] = n

luaPreamble(n, ids) == \A i \in DOMAIN ids : owner[ids[i]] = n

luaConflict(n, ids) ==
    LET i == FirstNotOwned(owner, ids, n)
    IN <<ids[i], owner[ids[i]]>>

luaUpdateState(n, ids, args) ==
    IF luaPreamble(n, ids)
    THEN [owner |-> owner, ttl |-> ttl,
          data |-> [k \in Ids |-> IF k \in SeqToSet(ids)
                                  THEN args[LastIdx(ids, k)] ELSE data[k]],
          err |-> FALSE, res |-> "ok", info |-> <<>>, wrote |-> SeqToSet(ids)]
    ELSE [owner |-> owner, ttl |-> ttl, data |-> data,
          err |-> TRUE, res |-> "conflict", info |-> luaConflict(n, ids),
          wrote |-> {}]

luaDeleteState(n, ids) ==
    IF luaPreamble(n, ids)
    THEN [owner |-> owner, ttl |-> ttl,
          data |-> [k \in Ids |-> IF k \in SeqToSet(ids) THEN NoData
                                  ELSE data[k]],
          err |-> FALSE, res |-> "ok", info |-> <<>>, wrote |-> SeqToSet(ids)]
    ELSE [owner |-> owner, ttl |-> ttl, data |-> data,
          err |-> TRUE, res |-> "conflict", info |-> luaConflict(n, ids),
          wrote |-> {}]

luaGetState(n, ids) ==
    IF luaPreamble(n, ids)
    THEN [owner |-> owner, ttl |-> ttl, data |-> data,
          err |-> FALSE, res |-> "value",
          info |-> [i \in DOMAIN ids |-> data[ids[i]]], wrote |-> {}]
    ELSE [owner |-> owner, ttl |-> ttl, data |-> data,
          err |-> TRUE, res |-> "conflict", info |-> luaConflict(n, ids),
          wrote |-> {}]

luaGrabLease(n, ids, timeout) ==
    LET free == {k \in SeqToSet(ids) : owner[k] = Nobody}
        leases == [i \in DOMAIN ids |->
                      IF owner[ids[i]] = Nobody \/ owner[ids[i]] = n
                      THEN LuaFalse ELSE owner[ids[i]]]
    IN [owner |-> [k \in Ids |-> IF k \in free THEN n ELSE owner[k]],
        ttl |-> [k \in Ids |-> IF k \in free THEN timeout ELSE ttl[k]],
        data |-> data, err |-> FALSE,
        res |-> IF leases[1] = LuaFalse THEN "ok" ELSE "remote",
        info |-> leases, wrote |-> {}]

luaRenewLeases(n, ids, timeout) ==
    LET mine == {k \in SeqToSet(ids) : owner[k] = n}
    IN [owner |-> owner,
        ttl |-> [k \in Ids |-> IF k \in mine THEN timeout ELSE ttl[k]],
        data |-> data, err |-> FALSE, res |-> "gone",
        info |-> SelectSeq(ids, LAMBDA k : owner[k] # n), wrote |-> {}]

luaAll(n, t) ==
    CASE t.op = "updateState" -> luaUpdateState(n, t.ids, t.args)
      [] t.op = "deleteState" -> luaDeleteState(n, t.ids)
      [] t.op = "getState" -> luaGetState(n, t.ids)
      [] t.op = "grabLease" -> luaGrabLease(n, t.ids, LeaseTimeout)
      [] t.op = "renewLeases" -> luaRenewLeases(n, t.ids, LeaseTimeout)

\* ------------------------------------------------- plug_checkpoint_lua
doLua(n, op, ids, argsList, cb) == Append(sent[n], Task(op, ids, argsList, cb))

PendingIds(pu) == [i \in DOMAIN pu |-> pu[i].id]
PendingValues(pu) == [i \in DOMAIN pu |-> pu[i].value]
PendingCbs(pu) == [i \in DOMAIN pu |-> pu[i].cb]

flushUpdateState_neverWaits(n, pu, force) ==
    IF Len(pu) > 0
    THEN [sent |-> doLua(n, "updateState", PendingIds(pu), PendingValues(pu),
                         BatchCb(PendingCbs(pu))),
          pend |-> <<>>]
    ELSE [sent |-> sent[n], pend |-> pu]

\* flushUpdateState applied to the batch pu of node n: the new <<sent, batch>>
flushUpdateState(n, pu, force) ==
    IF Len(pu) >= maxPending \/ (force /\ Len(pu) > 0)
    THEN [sent |-> doLua(n, "updateState", PendingIds(pu), PendingValues(pu),
                         BatchCb(PendingCbs(pu))),
          pend |-> <<>>]
    ELSE [sent |-> sent[n], pend |-> pu]

luaUpdateStateCall(n, id, newValue, cb) ==
    IF maxPending = 1
    THEN /\ sent' = [sent EXCEPT ![n] =
                         doLua(n, "updateState", <<id>>, <<newValue>>, cb)]
         /\ UNCHANGED pendingUpdates
    ELSE LET pu == Append(pendingUpdates[n],
                          [id |-> id, value |-> newValue, cb |-> cb])
             f == flushUpdateState(n, pu, FALSE)
         IN /\ sent' = [sent EXCEPT ![n] = f.sent]
            /\ pendingUpdates' = [pendingUpdates EXCEPT ![n] = f.pend]

\* -------------------------------------------------------- plug_checkpoint
doIt(n, op, keys, args, cb) == Append(casq[n], Task(op, keys, args, cb))

\* one command queued in a MULTI
Cmd(c, key, node, secs, val) ==
    [c |-> c, key |-> key, node |-> node, secs |-> secs, val |-> val]

\* a checkF that accepts whatever value was read
checkF_acceptsAll(x, nodeId) == TRUE

\* checkF of doItIfOwner
checkF(x, nodeId) == x = nodeId

\* op(multi, values, cb) of each call: the commands queued in the MULTI, or
\* the error passed to the callback instead of committing
casOp(n, t) ==
    LET values == [i \in DOMAIN t.ids |-> owner[t.ids[i]]]
        id == t.ids[1]
    IN CASE t.op \in {"updateState", "deleteState", "getState"} ->
              IF \A i \in DOMAIN values : checkF(values[i], n)
              THEN [abort |-> FALSE, res |-> "pending", info |-> <<>>,
                    cmds |-> <<Cmd(CASE t.op = "updateState" -> "setdata"
                                     [] t.op = "deleteState" -> "deldata"
                                     [] t.op = "getState" -> "getdata",
                                   id, Nobody, 0,
                                   IF t.op = "updateState"
                                   THEN t.args[1] ELSE NoData)>>,
                    gone |-> <<>>, alive |-> <<>>]
              ELSE [abort |-> TRUE, res |-> "conflict", info |-> values,
                    cmds |-> <<>>, gone |-> <<>>, alive |-> <<>>]
         [] t.op = "grabLease" ->
              IF values[1] = Nobody
              THEN [abort |-> FALSE, res |-> "pending", info |-> <<>>,
                    cmds |-> <<Cmd("set", id, n, 0, NoData),
                               Cmd("expire", id, Nobody, LeaseTimeout,
                                   NoData)>>,
                    gone |-> <<>>, alive |-> <<>>]
              ELSE IF values[1] = n
              THEN [abort |-> FALSE, res |-> "pending", info |-> <<>>,
                    cmds |-> <<>>, gone |-> <<>>, alive |-> <<>>]
              ELSE [abort |-> TRUE, res |-> "remote", info |-> <<values[1]>>,
                    cmds |-> <<>>, gone |-> <<>>, alive |-> <<>>]
         [] t.op = "renewLeases" ->
              LET alive == SelectSeq(t.ids, LAMBDA k : owner[k] = n)
              IN [abort |-> FALSE, res |-> "pending", info |-> <<>>,
                  cmds |-> [i \in DOMAIN alive |->
                               Cmd("expire", alive[i], Nobody, LeaseTimeout,
                                   NoData)],
                  gone |-> SelectSeq(t.ids, LAMBDA k : owner[k] # n),
                  alive |-> alive]

\* the store after the first k commands of a MULTI run by node n
RECURSIVE multiRun(_, _, _)
multiRun(n, cmds, k) ==
    IF k = 0
    THEN [owner |-> owner, ttl |-> ttl, data |-> data, replies |-> <<>>,
          touched |-> {}, wrote |-> {}]
    ELSE LET s == multiRun(n, cmds, k - 1)
             c == cmds[k]
         IN CASE c.c = "set" ->
                   [s EXCEPT !.owner[c.key] = c.node, !.ttl[c.key] = 0,
                             !.replies = Append(@, 1),
                             !.touched = @ \cup {c.key}]
              [] c.c = "expire" ->
                   IF s.owner[c.key] # Nobody
                   THEN [s EXCEPT !.ttl[c.key] = c.secs,
                                  !.replies = Append(@, 1),
                                  !.touched = @ \cup {c.key}]
                   ELSE [s EXCEPT !.replies = Append(@, 0)]
              [] c.c = "setdata" ->
                   [s EXCEPT !.data[c.key] = c.val, !.replies = Append(@, 1),
                             !.wrote = @ \cup {c.key}]
              [] c.c = "deldata" ->
                   [s EXCEPT !.data[c.key] = NoData, !.replies = Append(@, 1),
                             !.wrote = @ \cup {c.key}]
              [] c.c = "getdata" ->
                   [s EXCEPT !.replies = Append(@, 1)]

\* ===================================================================
\* Actions of the redis server and of the checkpoint plugs
\* ===================================================================
NoPlan == [abort |-> FALSE, res |-> "none", info |-> <<>>, cmds |-> <<>>,
           gone |-> <<>>, alive |-> <<>>]

watchVars == <<casq, caspc, watching, dirty, plan>>
luaVars == <<sent, replies, pendingUpdates>>

\* time passes: every lease key loses one second, expired keys vanish
Tick ==
    /\ \E k \in Ids : ttl[k] > 0
    /\ ttl' = [k \in Ids |-> IF ttl[k] > 0 THEN ttl[k] - 1 ELSE 0]
    /\ owner' = [k \in Ids |-> IF ttl[k] <= 1 THEN Nobody ELSE owner[k]]
    /\ ev' = NoEv
    /\ UNCHANGED <<impl, maxPending, data, lastHolder, luaVars, watchVars,
                   ncalls, ca>>

\* redis runs the next script sent by node n
LuaServe(n) ==
    /\ sent[n] # <<>>
    /\ LET t == Head(sent[n])
           r == luaAll(n, t)
       IN /\ owner' = r.owner
          /\ ttl' = r.ttl
          /\ data' = r.data
          /\ lastHolder' = [k \in Ids |-> IF r.owner[k] # owner[k] THEN n
                                          ELSE lastHolder[k]]
          /\ sent' = [sent EXCEPT ![n] = Tail(@)]
          /\ replies' = [replies EXCEPT ![n] =
                            IF t.cb.k = "env" THEN @
                            ELSE Append(@, [task |-> t, err |-> r.err,
                                            res |-> IF t.cb.k \in NodeCbKinds
                                                    THEN r.res ELSE "none",
                                            info |-> IF t.cb.k \in NodeCbKinds
                                                     THEN r.info ELSE <<>>])]
          /\ ev' = Event(n, t.op, t.ids, r.res, r.info, r.wrote, TRUE, TRUE,
                         FALSE)
          /\ ca' = markApplied(ca, t.cb, r.wrote # {})
    /\ UNCHANGED <<impl, maxPending, pendingUpdates, watchVars, ncalls>>

retrySeparately_sameCallback(t) ==
    [i \in DOMAIN t.ids |->
        Task("updateState", <<t.ids[i]>>, <<t.args[i]>>, t.cb.cbs[1])]

\* flushUpdateState.cb1 with an error: one oneUpdateState per entry of the
\* failed batch t, each with the value and the callback of its entry
retrySeparately(t) ==
    [i \in DOMAIN t.ids |->
        Task("updateState", <<t.ids[i]>>, <<t.args[i]>>, t.cb.cbs[i])]

\* the client of node n receives the next reply: cb1 of flushUpdateState, or
\* the caller's callback
LuaReply(n) ==
    /\ replies[n] # <<>>
    /\ LET r == Head(replies[n])
           t == r.task
       IN /\ replies' = [replies EXCEPT ![n] = Tail(@)]
          /\ IF t.cb.k = "batch" /\ r.err
             THEN /\ sent' = [sent EXCEPT ![n] = @ \o retrySeparately(t)]
                  /\ ca' = ca
             ELSE /\ sent' = sent
                  /\ ca' = IF t.cb.k = "batch"
                           THEN cbAll(ca, t.cb.cbs, FALSE, Len(t.cb.cbs))
                           ELSE cbInvoke(ca, t.cb, r.err)
    /\ ev' = NoEv
    /\ UNCHANGED <<impl, maxPending, owner, ttl, data, lastHolder,
                   pendingUpdates, watchVars, ncalls>>

\* the coalescing cron of node n fires: flushUpdateState(true)
CronFlush(n) ==
    /\ impl = "lua" /\ maxPending # 1
    /\ LET f == flushUpdateState(n, pendingUpdates[n], TRUE)
       IN /\ sent' = [sent EXCEPT ![n] = f.sent]
          /\ pendingUpdates' = [pendingUpdates EXCEPT ![n] = f.pend]
    /\ ev' = Event(n, "cron", <<>>, "none", <<>>, {}, FALSE, FALSE, FALSE)
    /\ UNCHANGED <<impl, maxPending, owner, ttl, data, lastHolder, replies,
                   watchVars, ncalls, ca>>

\* CASTaskExecutor worker: redisClient.watch(task.keys)
CasWatch(n) ==
    /\ caspc[n] = "idle"
    /\ casq[n] # <<>>
    /\ caspc' = [caspc EXCEPT ![n] = "watched"]
    /\ watching' = [watching EXCEPT ![n] = SeqToSet(Head(casq[n]).ids)]
    /\ dirty' = [dirty EXCEPT ![n] = FALSE]
    /\ ev' = NoEv
    /\ UNCHANGED <<impl, maxPending, owner, ttl, data, lastHolder, luaVars,
                   casq, plan, ncalls, ca>>

\* redisClient.mget(task.keys) and task.op(multi, response, cb0)
CasRead(n) ==
    /\ caspc[n] = "watched"
    /\ LET t == Head(casq[n])
           p == casOp(n, t)
       IN IF p.abort
          THEN /\ casq' = [casq EXCEPT ![n] = Tail(@)]
               /\ caspc' = [caspc EXCEPT ![n] = "idle"]
               /\ watching' = [watching EXCEPT ![n] = {}]
               /\ dirty' = [dirty EXCEPT ![n] = FALSE]
               /\ plan' = plan
               /\ ev' = Event(n, t.op, t.ids, p.res, p.info, {}, TRUE, TRUE,
                              FALSE)
               /\ ca' = cbInvoke(ca, t.cb, TRUE)
          ELSE /\ plan' = [plan EXCEPT ![n] = p]
               /\ caspc' = [caspc EXCEPT ![n] = "built"]
               /\ ev' = Event(n, t.op, t.ids, p.res, p.info, {}, TRUE, FALSE,
                              FALSE)
               /\ UNCHANGED <<casq, watching, dirty, ca>>
    /\ UNCHANGED <<impl, maxPending, owner, ttl, data, lastHolder, luaVars,
                   ncalls>>

\* what the caller's callback makes of the EXEC reply (null when discarded)
execResult(t, p, discarded, s) ==
    CASE t.op \in {"grabLease", "updateState", "deleteState"} ->
           [res |-> "ok", info |-> <<>>]
      [] t.op = "getState" ->
           IF discarded THEN [res |-> "threw", info |-> <<>>]
           ELSE [res |-> "value", info |-> <<s.data[t.ids[1]]>>]
      [] t.op = "renewLeases" ->
           IF discarded THEN [res |-> "threw", info |-> <<>>]
           ELSE [res |-> "gone",
                 info |-> p.gone \o
                     SelectSeq(p.alive, LAMBDA k :
                         \E i \in DOMAIN p.alive :
                             p.alive[i] = k /\ s.replies[i] = 0)]

\* multi.exec(cb0): redis runs the MULTI unless a watched key was modified
CasExec(n) ==
    /\ caspc[n] = "built"
    /\ LET t == Head(casq[n])
           p == plan[n]
           discarded == dirty[n]
           s == IF discarded THEN multiRun(n, p.cmds, 0)
                ELSE multiRun(n, p.cmds, Len(p.cmds))
           x == execResult(t, p, discarded, s)
       IN /\ owner' = s.owner
          /\ ttl' = s.ttl
          /\ data' = s.data
          /\ lastHolder' = [k \in Ids |-> IF s.owner[k] # owner[k] THEN n
                                          ELSE lastHolder[k]]
          /\ dirty' = [Touch(s.touched, n) EXCEPT ![n] = FALSE]
          /\ ev' = Event(n, t.op, t.ids, x.res, x.info, s.wrote, FALSE, TRUE,
                         discarded)
          /\ ca' = cbInvoke(markApplied(ca, t.cb, s.wrote # {}), t.cb, FALSE)
    /\ casq' = [casq EXCEPT ![n] = Tail(@)]
    /\ caspc' = [caspc EXCEPT ![n] = "idle"]
    /\ watching' = [watching EXCEPT ![n] = {}]
    /\ plan' = [plan EXCEPT ![n] = NoPlan]
    /\ UNCHANGED <<impl, maxPending, luaVars, ncalls>>

\* ------------------------------------------------- the plugs' public calls
\* a call of node n that is not updateState: doLua or doIt/doItIfOwner
storeCall(n, op, ids, cb) ==
    IF impl = "lua"
    THEN /\ sent' = [sent EXCEPT ![n] = doLua(n, op, ids, <<>>, cb)]
         /\ UNCHANGED <<replies, pendingUpdates, watchVars>>
    ELSE /\ casq' = [casq EXCEPT ![n] = doIt(n, op, ids, <<>>, cb)]
         /\ UNCHANGED <<luaVars, caspc, watching, dirty, plan>>

updateState(n, id, newValue, cb) ==
    IF impl = "lua"
    THEN /\ luaUpdateStateCall(n, id, newValue, cb)
         /\ UNCHANGED <<replies, watchVars>>
    ELSE /\ casq' = [casq EXCEPT ![n] =
                        doIt(n, "updateState", <<id>>, <<newValue>>, cb)]
         /\ UNCHANGED <<luaVars, caspc, watching, dirty, plan>>

restUnchanged == UNCHANGED <<impl, maxPending, owner, ttl, data, lastHolder>>

GrabLease(n, id) ==
    /\ ncalls < MaxCalls
    /\ storeCall(n, "grabLease", <<id>>, EnvCb)
    /\ ncalls' = ncalls + 1 /\ ev' = NoEv /\ ca' = ca /\ restUnchanged

RenewLeases(n, ids) ==
    /\ ncalls < MaxCalls
    /\ storeCall(n, "renewLeases", ids, EnvCb)
    /\ ncalls' = ncalls + 1 /\ ev' = NoEv /\ ca' = ca /\ restUnchanged

UpdateState(n, id, v) ==
    /\ ncalls < MaxCalls
    /\ updateState(n, id, v, CallerCb(id))
    /\ ncalls' = ncalls + 1 /\ ev' = NoEv /\ ca' = ca /\ restUnchanged

DeleteState(n, id) ==
    /\ ncalls < MaxCalls
    /\ storeCall(n, "deleteState", <<id>>, EnvCb)
    /\ ncalls' = ncalls + 1 /\ ev' = NoEv /\ ca' = ca /\ restUnchanged

GetState(n, id) ==
    /\ ncalls < MaxCalls
    /\ storeCall(n, "getState", <<id>>, EnvCb)
    /\ ncalls' = ncalls + 1 /\ ev' = NoEv /\ ca' = ca /\ restUnchanged

\* ===================================================================
\* SpecStore: the nodes call the checkpoint plug concurrently
\* ===================================================================
InitStoreCommon ==
    /\ impl \in Impls
    /\ maxPending \in (IF impl = "lua" THEN 1..MaxPendingUpdates ELSE {1})
    /\ data = [k \in Ids |-> NoData]
    /\ sent = [n \in Nodes |-> <<>>]
    /\ replies = [n \in Nodes |-> <<>>]
    /\ pendingUpdates = [n \in Nodes |-> <<>>]
    /\ casq = [n \in Nodes |-> <<>>]
    /\ caspc = [n \in Nodes |-> "idle"]
    /\ watching = [n \in Nodes |-> {}]
    /\ dirty = [n \in Nodes |-> FALSE]
    /\ plan = [n \in Nodes |-> NoPlan]
    /\ ncalls = 0
    /\ ev = NoEv

InitStore ==
    /\ InitStoreCommon
    /\ owner = [k \in Ids |-> Nobody]
    /\ ttl = [k \in Ids |-> 0]
    /\ lastHolder = [k \in Ids |-> Nobody]
    /\ ca = InitCA(Undefined)

NextStore ==
    \/ Tick
    \/ \E n \in Nodes : LuaServe(n)
    \/ \E n \in Nodes : LuaReply(n)
    \/ \E n \in Nodes : CronFlush(n)
    \/ \E n \in Nodes : CasWatch(n)
    \/ \E n \in Nodes : CasRead(n)
    \/ \E n \in Nodes : CasExec(n)
    \/ \E n \in Nodes, id \in Ids : GrabLease(n, id)
    \/ \E n \in Nodes, ids \in RenewLists : RenewLeases(n, ids)
    \/ \E n \in Nodes, id \in Ids, v \in Values : UpdateState(n, id, v)
    \/ \E n \in Nodes, id \in ReadIds : DeleteState(n, id)
    \/ \E n \in Nodes, id \in ReadIds : GetState(n, id)

SpecStore == InitStore /\ [][NextStore]_vars

\* ===================================================================
\* SpecCA: one CA hosted by CaNode processes messages; another node
\* competes for its lease
\* ===================================================================
storeIdle ==
    /\ ev' = NoEv
    /\ UNCHANGED <<impl, maxPending, owner, ttl, data, lastHolder, luaVars,
                   watchVars, ncalls>>

\* a child reports an error (ok = FALSE) or code throws: one more fault
Fault(c, ok) == IF ok THEN c ELSE [c EXCEPT !.faults = @ + 1]
CanFail(ok) == ok \/ ca.faults < MaxFaults

\* a client calls process(msg, cb); messages are numbered in call order
Process(m, k) ==
    /\ ca.mpc[m] = "unsent"
    /\ \A j \in Msgs : j < m => ca.mpc[j] # "unsent"
    /\ ca' = process(ca, m, k)
    /\ storeIdle

\* the async.queue hands its next task to the worker
Worker ==
    /\ ca.queue # <<>>
    /\ ca.workers < QueueConcurrency
    /\ ca' = mainF(ca)
    /\ storeIdle

\* the children's __ca_begin__ have called back; the method is looked up and
\* invoked, leaving the handler's state and version as it pleases
BeginDone(m, ok, out, st, ver) ==
    /\ ca.mpc[m] = "begin"
    /\ CanFail(ok)
    /\ ca' = beginDone(Fault(ca, ok), m, ok, out, st, ver)
    /\ storeIdle

\* the handler method calls its callback
MethodDone(m, error) ==
    /\ ca.mpc[m] = "dispatch"
    /\ ca' = dispatchCb(ca, m, error)
    /\ storeIdle

\* the children's __ca_prepare__ have called back
PrepareDone(m, ok) ==
    /\ ca.mpc[m] = "prepare"
    /\ CanFail(ok)
    /\ ca' = prepareDone(Fault(ca, ok), m, ok)
    /\ IF ok
       THEN /\ updateState(CaNode, CaId, ca.snap[m], PersistCb(m))
            /\ ev' = NoEv
            /\ UNCHANGED <<impl, maxPending, owner, ttl, data, lastHolder,
                           ncalls>>
       ELSE storeIdle

\* the children's __ca_commit__ have called back
CommitDone(m, ok) ==
    /\ ca.mpc[m] = "commit"
    /\ CanFail(ok)
    /\ ca' = commitDone(Fault(ca, ok), m, ok)
    /\ storeIdle

\* the children's __ca_abort__ have called back
AbortDone(m, ok) ==
    /\ ca.aflows[m] # <<>>
    /\ CanFail(ok)
    /\ ca' = abortDone(Fault(ca, ok), m, ok)
    /\ storeIdle

\* a child's __ca_abort__ throws while the pipeline of message m rolls back:
\* cb0 is never called and the exception reaches the domain of the message
AbortThrows(m) ==
    /\ ca.aflows[m] # <<>>
    /\ ~Head(ca.aflows[m]).exception
    /\ "exception" \notin ca.hist[m]
    /\ ca.faults < MaxFaults
    /\ ca' = domError(Note([Fault(ca, FALSE) EXCEPT !.aflows[m] = Tail(@)],
                            m, {"abortThrew"}), m)
    /\ storeIdle

\* code running in the domain of message m throws
Exception(m) ==
    /\ ca.mpc[m] \in {"dispatch", "prepare", "persist", "commit", "done"}
    /\ ca.faults < MaxFaults
    /\ ca' = domError(Note(Fault(ca, FALSE), m,
                            IF ca.mpc[m] = "dispatch" THEN {"dispatchExc"}
                            ELSE {}), m)
    /\ storeIdle

\* gen_ca.terminate: the request __ca_terminate__ is queued as message m
terminate(c, m) == process([c EXCEPT !.term = m], m, "request")

Terminate(m) ==
    /\ ca.term = 0
    /\ ca.mpc[m] = "unsent"
    /\ \A j \in Msgs : j < m => ca.mpc[j] # "unsent"
    /\ ca' = terminate(ca, m)
    /\ storeIdle

\* the CA is shut down from outside (terminate, destroy, lease cron)
Shutdown ==
    /\ ~ca.isShutdown
    /\ ca' = shutdown(ca)
    /\ storeIdle

\* gen_ca.destroy: shutdown, then the checkpoint of the CA is deleted
Destroy ==
    /\ ca.destroy = "none"
    /\ ca' = [shutdown(ca) EXCEPT !.destroy = "issued"]
    /\ storeCall(CaNode, "deleteState", <<CaId>>, DestroyCb)
    /\ ev' = NoEv /\ UNCHANGED ncalls /\ restUnchanged

\* the rival node tries to take over the CA
RivalGrab == ncalls < MaxRival /\ GrabLease(Rival, CaId)

InitCAStore ==
    /\ InitStoreCommon
    /\ owner = [k \in Ids |-> IF k = CaId THEN CaNode ELSE Nobody]
    /\ ttl = [k \in Ids |-> IF k = CaId THEN LeaseTimeout ELSE 0]
    /\ lastHolder = [k \in Ids |-> IF k = CaId THEN CaNode ELSE Nobody]
    /\ \E v \in Versions : ca = InitCA(v)

\* the steps of the pipeline of any message
Pipeline ==
    \/ Worker
    \/ \E m \in Msgs, out \in Outcomes :
          BeginDone(m, TRUE, out, StateAfter(m), VersionAfter)
    \/ \E m \in Msgs : BeginDone(m, FALSE, "runs", ca.state, ca.version)
    \/ \E m \in Msgs, error \in {Undefined, "app"} : MethodDone(m, error)
    \/ \E m \in Msgs, ok \in BOOLEAN : PrepareDone(m, ok)
    \/ \E m \in Msgs, ok \in BOOLEAN : CommitDone(m, ok)
    \/ \E m \in Msgs, ok \in BOOLEAN : AbortDone(m, ok)
    \/ \E m \in Msgs : AbortThrows(m)
    \/ \E m \in Msgs : Exception(m)

\* SpecCA: one message, either checkpoint plug, the lease may be lost
NextCA ==
    \/ \E k \in Kinds : Process(1, k)
    \/ Pipeline
    \/ Shutdown
    \/ Tick
    \/ RivalGrab
    \/ LuaServe(CaNode) \/ LuaServe(Rival)
    \/ LuaReply(CaNode)
    \/ CronFlush(CaNode)
    \/ CasWatch(CaNode) \/ CasWatch(Rival)
    \/ CasRead(CaNode) \/ CasRead(Rival)
    \/ CasExec(CaNode) \/ CasExec(Rival)

SpecCA == InitCAStore /\ [][NextCA]_vars

\* SpecStop: SpecCA in which the CA can also be destroyed
NextStop ==
    \/ \E k \in Kinds : Process(1, k)
    \/ Pipeline
    \/ Shutdown
    \/ Destroy
    \/ Tick
    \/ RivalGrab
    \/ LuaServe(CaNode) \/ LuaServe(Rival)
    \/ LuaReply(CaNode)
    \/ CronFlush(CaNode)
    \/ CasWatch(CaNode) \/ CasWatch(Rival)
    \/ CasRead(CaNode) \/ CasRead(Rival)
    \/ CasExec(CaNode) \/ CasExec(Rival)

SpecStop == InitCAStore /\ [][NextStop]_vars

\* SpecCAFair: SpecCA in which the event loop keeps running: the queue
\* worker takes the next task, and every child callback, the handler
\* callback and every store reply eventually arrive
FairCA ==
    /\ WF_vars(Worker)
    /\ WF_vars(LuaServe(CaNode))
    /\ WF_vars(LuaReply(CaNode))
    /\ WF_vars(CronFlush(CaNode))
    /\ WF_vars(CasWatch(CaNode))
    /\ WF_vars(CasRead(CaNode))
    /\ WF_vars(CasExec(CaNode))
    /\ \A m \in Msgs :
          /\ WF_vars(\E out \in Outcomes :
                        BeginDone(m, TRUE, out, StateAfter(m), VersionAfter))
          /\ WF_vars(\E error \in {Undefined, "app"} : MethodDone(m, error))
          /\ WF_vars(PrepareDone(m, TRUE))
          /\ WF_vars(CommitDone(m, TRUE))
          /\ WF_vars(AbortDone(m, TRUE))

SpecCAFair == SpecCA /\ FairCA

\* SpecQueue: several messages, the scripted plug without coalescing, nobody
\* contends for the lease
InitQueue ==
    /\ InitCAStore
    /\ impl = "lua" /\ maxPending = 1

NextQueue ==
    \/ \E m \in Msgs, k \in Kinds : Process(m, k)
    \/ Pipeline
    \/ LuaServe(CaNode)
    \/ LuaReply(CaNode)

SpecQueue == InitQueue /\ [][NextQueue]_vars

\* SpecTerm: SpecQueue in which one of the messages is the __ca_terminate__
\* request of gen_ca.terminate
NextTerm ==
    \/ \E m \in Msgs, k \in Kinds : Process(m, k)
    \/ \E m \in Msgs : Terminate(m)
    \/ Pipeline
    \/ LuaServe(CaNode)
    \/ LuaReply(CaNode)

SpecTerm == InitQueue /\ [][NextTerm]_vars


\* ===================================================================
\* SpecLife: the factory creates the CA object, the CA serves messages, and
\* the object is created again from the stored checkpoint
\* ===================================================================
\* Values a handler can hold in this.state, and the version of its spec
JsStates == {"{}", "{x:1}", "null", "0", "false", "''", "NaN", Undefined}
JsFalsy == {"null", "0", "false", "''", "NaN", Undefined}
SpecVersions == {"v1", "v2"}
Absent == "absent"

\* JSON.stringify of a property value: a key whose value is undefined is
\* dropped, NaN is written as null; JSON.parse reads a missing key as
\* undefined
jsonEnc(v) == IF v = Undefined THEN Absent ELSE IF v = "NaN" THEN "null" ELSE v
jsonDec(v) == IF v = Absent THEN Undefined ELSE v

\* ca_default_methods.__ca_prepare__: the handler's share of the snapshot,
\* the JSON text of {state, version}
ca_prepare(state, version) == <<jsonEnc(state), jsonEnc(version)>>

\* gen_ca mapToObject / dumpState: the shares that are neither null nor
\* undefined, keyed by child; the handler is the only transactional child,
\* and the JSON text of that object is what is written
mapToObject(results) == SelectSeq(results, LAMBDA r : r # NoData)
dumpState(results) == <<mapToObject(results)>>

\* gen_ca newState: the object of a string, null for anything else
newState(str) == IF str # NoData THEN str[1] ELSE NoData

\* gen_ca.resume: the share handed to the handler's __ca_resume__,
\* cp && JSON.parse(cp) of cpObj[child.getName()]
NoShare == [set |-> FALSE, state |-> Undefined, version |-> Undefined]
resumeShare(cp) ==
    LET cpObj == newState(cp)
    IN IF cpObj = <<>> THEN NoShare
       ELSE [set |-> TRUE, state |-> jsonDec(cpObj[1][1]),
             version |-> jsonDec(cpObj[1][2])]

\* ca_default_methods.__ca_resume__
ca_resume(c, cp) ==
    LET st == IF cp.set THEN cp.state ELSE Undefined
    IN [c EXCEPT !.state = IF st \in JsFalsy THEN "{}" ELSE st,
                 !.version = IF cp.set THEN cp.version ELSE Undefined]

\* ca_default_methods.__ca_terminate__
ca_terminate(c) == <<c.state, c.version>>

\* gen_handler constructor: a new agent object
NewAgent(version, gen, orig) ==
    [pc |-> "created", gen |-> gen,
     state |-> "{}", version |-> version,
     state_backup_ |-> "noBackup", version_backup_ |-> version,
     cpRead |-> NoData, first |-> "assert", firstTime |-> FALSE,
     cp |-> NoShare,
     ninit |-> 0, nresume |-> 0, nbody |-> 0, bodyIn |-> "none",
     outcome |-> "none", handed |-> FALSE, isShutdown |-> FALSE,
     nmsg |-> 0, snap |-> NoData, orig |-> orig]
NoOrig == [init |-> FALSE, nmsg |-> 0, term |-> <<>>]

lifeRest ==
    UNCHANGED <<impl, maxPending, ttl, lastHolder, sent, replies,
                pendingUpdates, casq, caspc, watching, dirty, plan, ncalls,
                ev>>

\* ca_main.newInstance: $.cp.getState(that.getName(), cb0)
LifeGetState ==
    /\ ca.pc = "created"
    /\ ca' = IF owner[CaId] = CaNode
             THEN [ca EXCEPT !.pc = "gotState", !.cpRead = data[CaId]]
             ELSE [ca EXCEPT !.pc = "failed"]
    /\ UNCHANGED <<data, owner>> /\ lifeRest

\* ca_main.newInstance: resume(data) for a string, init otherwise; the
\* handler plug only installs __ca_first_message__
InitOrResume ==
    /\ ca.pc = "gotState"
    /\ ca' = IF ca.cpRead # NoData
             THEN [ca EXCEPT !.pc = "wired", !.nresume = @ + 1,
                             !.first = "resume", !.firstTime = TRUE,
                             !.cp = resumeShare(ca.cpRead)]
             ELSE [ca EXCEPT !.pc = "wired", !.ninit = @ + 1,
                             !.first = "init", !.firstTime = TRUE]
    /\ UNCHANGED <<data, owner>> /\ lifeRest

\* the first message is processed up to the call of the method: begin
FirstBegin ==
    /\ ca.pc = "wired"
    /\ ca' = [ca EXCEPT !.pc = "first",
                        !.state_backup_ = jsonEnc(ca.state),
                        !.version_backup_ = ca.version]
    /\ UNCHANGED <<data, owner>> /\ lifeRest

\* ca_default_methods.__ca_abort__ on the agent object
lifeAbort(c) ==
    [c EXCEPT !.state = IF c.state_backup_ \in {"noBackup", Absent} THEN @
                        ELSE jsonDec(c.state_backup_),
              !.version = IF c.version_backup_ \in JsFalsy THEN @
                          ELSE c.version_backup_]

\* plug_ca_handler.__ca_first_message__: the body of __ca_init__ or
\* __ca_resume__ runs; the application's body may report an error
firstMessage(c, ok) ==
    IF ~c.firstTime
    THEN [lifeAbort(c) EXCEPT !.pc = "replied", !.outcome = "aborted"]
    ELSE LET c1 == [c EXCEPT !.firstTime = FALSE, !.nbody = @ + 1,
                             !.bodyIn = "first"]
             c2 == IF c.first = "resume" THEN ca_resume(c1, c.cp) ELSE c1
         IN IF ok THEN [c2 EXCEPT !.pc = "prepare"]
            ELSE [lifeAbort(c2) EXCEPT !.pc = "replied",
                                       !.outcome = "aborted"]

FirstBody(ok) ==
    /\ ca.pc = "first"
    /\ ca' = firstMessage(ca, ok)
    /\ UNCHANGED <<data, owner>> /\ lifeRest

\* prepare and $.cp.updateState of the message in progress
LifePrepare ==
    /\ ca.pc = "prepare"
    /\ ca' = [ca EXCEPT !.pc = "persist",
                        !.snap = dumpState(<<ca_prepare(ca.state,
                                                        ca.version)>>)]
    /\ UNCHANGED <<data, owner>> /\ lifeRest

\* the store decides the write, then commit or forced shutdown, and the reply
LifePersist ==
    /\ ca.pc = "persist"
    /\ IF owner[CaId] = CaNode
       THEN /\ data' = [data EXCEPT ![CaId] = ca.snap]
            /\ ca' = [ca EXCEPT !.pc = "replied",
                                !.outcome = IF ca.handed THEN @
                                            ELSE "committed",
                                !.nmsg = IF ca.handed THEN @ + 1 ELSE @]
       ELSE /\ data' = data
            /\ ca' = [ca EXCEPT !.pc = "replied", !.isShutdown = TRUE,
                                !.outcome = IF ca.handed THEN @
                                            ELSE "shutdown"]
    /\ UNCHANGED owner /\ lifeRest

\* ca_main.newInstance, end of the waterfall: process called back without an
\* error, the agent is handed to the caller; later replies go to clients
HandOver ==
    /\ ca.pc = "replied"
    /\ ca' = [ca EXCEPT !.pc = "ready", !.handed = TRUE]
    /\ UNCHANGED <<data, owner>> /\ lifeRest

\* a client's message: begin and a method that leaves s in this.state
LifeMessage(s) ==
    /\ ca.pc = "ready" /\ ~ca.isShutdown
    /\ ca.nmsg < MaxLifeMsgs
    /\ ca' = [ca EXCEPT !.pc = "prepare",
                        !.state_backup_ = jsonEnc(ca.state),
                        !.version_backup_ = ca.version,
                        !.state = s]
    /\ UNCHANGED <<data, owner>> /\ lifeRest

\* the lease of the CA is lost
LeaseLost ==
    /\ owner[CaId] = CaNode
    /\ ca.pc \in {"created", "persist"}
    /\ owner' = [owner EXCEPT ![CaId] = Nobody]
    /\ UNCHANGED <<data, ca>> /\ lifeRest

\* the object is dropped and the factory creates the CA again, with the
\* version of the spec then deployed
Recreate(version) ==
    /\ ca.pc = "ready"
    /\ ca.gen < MaxGen
    /\ owner[CaId] = CaNode
    /\ ca' = NewAgent(version, ca.gen + 1,
                      [init |-> ca.ninit = 1 /\ ca.outcome = "committed",
                       nmsg |-> ca.nmsg,
                       term |-> ca_terminate(ca)])
    /\ UNCHANGED <<data, owner>> /\ lifeRest

InitLife ==
    /\ InitStoreCommon
    /\ impl = "lua" /\ maxPending = 1
    /\ owner = [k \in Ids |-> IF k = CaId THEN CaNode ELSE Nobody]
    /\ ttl = [k \in Ids |-> IF k = CaId THEN LeaseTimeout ELSE 0]
    /\ lastHolder = [k \in Ids |-> IF k = CaId THEN CaNode ELSE Nobody]
    /\ \E v \in SpecVersions : ca = NewAgent(v, 1, NoOrig)

NextLife ==
    \/ LifeGetState
    \/ InitOrResume
    \/ FirstBegin
    \/ \E ok \in BOOLEAN : FirstBody(ok)
    \/ LifePrepare
    \/ LifePersist
    \/ HandOver
    \/ \E s \in JsStates : LifeMessage(s)
    \/ LeaseLost
    \/ \E v \in SpecVersions : Recreate(v)

SpecLife == InitLife /\ [][NextLife]_vars

\* ===================================================================
\* SpecRpc: json_rpc classifies a reply message.  The message is any object
\* a peer can send: ca.msg describes the properties the predicates read.
\*   jsonrpc  the version string
\*   shape    "null" for a null message, "error" for an object with an
\*            error property, "result" for one with a result property
\*   code     error.code (0 when missing: falsy)
\*   dataLen  error.data.length, or result.length (0 when missing)
\*   id       the id (0 when missing, as in a notification: falsy)
\* ===================================================================
ERROR_CODES ==
    [parseError |-> -32700,
     invalidRequest |-> -32600,
     methodNotFound |-> -32601,
     invalidParams |-> -32602,
     internalError |-> -32603,
     noSuchCA |-> -32000,
     shutdownCA |-> -32001,
     checkpointFailure |-> -32002,
     prepareFailure |-> -32003,
     exceptionThrown |-> -32004,
     commitFailure |-> -32005,
     forceRedirect |-> -32006,
     notAuthorized |-> -32007]

ErrorCodeValues == {ERROR_CODES[k] : k \in DOMAIN ERROR_CODES}

\* the codes a message can carry: the enumeration, no code, and a server
\* error code outside the enumeration
RpcCodes == ErrorCodeValues \cup {0, -32099}

RpcMessages ==
    [jsonrpc : {"2.0", "1.0"}, shape : {"error", "result"}, code : RpcCodes,
     dataLen : 0..MaxDataLen, id : {0, 1}]
    \cup {[jsonrpc |-> "2.0", shape |-> "null", code |-> 0, dataLen |-> 0,
           id |-> 0]}

\* json_rpc.isSystemError, as the truth value of its && chain
msgIsSystemError(msg) ==
    /\ msg.shape # "null"
    /\ msg.jsonrpc = "2.0"
    /\ msg.shape = "error" /\ msg.code # 0
    /\ msg.dataLen # 0 /\ msg.dataLen = 2
    /\ msg.id # 0

\* json_rpc.getSystemErrorCode (0 stands for undefined)
msgSystemErrorCode(msg) == IF msgIsSystemError(msg) THEN msg.code ELSE 0

isErrorRecoverable_noCommitFailure(msg) ==
    LET code == msgSystemErrorCode(msg) IN
    \/ code = ERROR_CODES.noSuchCA
    \/ code = ERROR_CODES.shutdownCA
    \/ code = ERROR_CODES.checkpointFailure
    \/ code = ERROR_CODES.prepareFailure
    \/ code = ERROR_CODES.internalError
isErrorRecoverable(msg) ==
    LET code == msgSystemErrorCode(msg) IN
    \/ code = ERROR_CODES.noSuchCA
    \/ code = ERROR_CODES.shutdownCA
    \/ code = ERROR_CODES.checkpointFailure
    \/ code = ERROR_CODES.prepareFailure
    \/ code = ERROR_CODES.commitFailure
    \/ code = ERROR_CODES.internalError

rpcRest ==
    UNCHANGED <<impl, maxPending, owner, ttl, data, lastHolder, sent, replies,
                pendingUpdates, casq, caspc, watching, dirty, plan, ncalls,
                ev>>

\* a caller asks whether the message it received reports a recoverable error
IsErrorRecoverable ==
    /\ ~ca.asked
    /\ ca' = [ca EXCEPT !.asked = TRUE,
                        !.recoverable = isErrorRecoverable(ca.msg)]
    /\ rpcRest

InitRpc ==
    /\ InitStoreCommon
    /\ impl = "lua" /\ maxPending = 1
    /\ owner = [k \in Ids |-> Nobody]
    /\ ttl = [k \in Ids |-> 0]
    /\ lastHolder = [k \in Ids |-> Nobody]
    /\ \E msg \in RpcMessages :
          ca = [msg |-> msg, asked |-> FALSE, recoverable |-> FALSE]

NextRpc == IsErrorRecoverable

SpecRpc == InitRpc /\ [][NextRpc]_vars

\* ===================================================================
\* SpecNode: one node hosts the agents.  Clients call the factory's
\* instance(), the lease cron runs, agents process messages, leases expire
\* and another node grabs them.  In this specification ca is the node:
\*   lookup   plug_lookup: id -> the agent object registered (0: none)
\*   objs     the agent objects created for each id, in creation order
\*   createQ  plug_factory: the creation queue of each id
\*   loading  the request whose loadComponent is running (0: worker idle)
\*   req      the instance() calls
\* ===================================================================
InstanceCalls == 1..MaxInstance
IdOrder == <<"a", "b">>

NewObj == [isShutdown |-> FALSE, busy |-> FALSE]

NoReq == [id |-> "none", allowCreate |-> FALSE, hasCb |-> FALSE,
          pc |-> "unsent", out |-> "none", obj |-> 0, ncb |-> 0,
          asked |-> FALSE, foundShutdown |-> FALSE]

\* the node with the agents of the ids in hosted created and registered
NewNode(hosted) ==
    [lookup |-> [k \in Ids |-> IF k \in hosted THEN 1 ELSE 0],
     objs |-> [k \in Ids |-> IF k \in hosted THEN <<NewObj>> ELSE <<>>],
     createQ |-> [k \in Ids |-> <<>>],
     loading |-> [k \in Ids |-> 0],
     req |-> [r \in InstanceCalls |-> NoReq],
     ncron |-> 0,
     \* history: the ids the last cron run asked to renew
     alive |-> <<>>]

\* the agent registered for id is shut down
registeredShutdown(c, id) ==
    c.lookup[id] # 0 /\ c.objs[id][c.lookup[id]].isShutdown

\* cb0 of instance(): the caller's callback, if the call has one
deliver(c, r, out, g) ==
    IF c.req[r].hasCb
    THEN [c EXCEPT !.req[r].pc = "done", !.req[r].out = out,
                   !.req[r].obj = g, !.req[r].ncb = @ + 1]
    ELSE [c EXCEPT !.req[r].pc = "done"]

\* plug_factory.instance(caId, env, allowCreate, cb0) up to its first
\* asynchronous call.  On a shut-down entry it calls itself with
\* (caId, env, cb0): allowCreate is then the function cb0, and cb0 undefined
instance(c, r, id, allowCreate) ==
    LET c0 == [c EXCEPT !.req[r] = [NoReq EXCEPT !.id = id,
                                                 !.allowCreate = allowCreate,
                                                 !.hasCb = TRUE,
                                                 !.asked = allowCreate]]
    IN IF c.lookup[id] # 0
       THEN IF registeredShutdown(c, id)
            THEN [c0 EXCEPT !.lookup[id] = 0,
                            !.req[r].foundShutdown = TRUE,
                            !.req[r].allowCreate = TRUE,
                            !.req[r].hasCb = FALSE,
                            !.req[r].pc = "grabbing"]
            ELSE deliver(c0, r, "ca", c.lookup[id])
       ELSE [c0 EXCEPT !.req[r].pc = "grabbing"]

Instance(r, id, allowCreate) ==
    /\ ca.req[r].pc = "unsent"
    /\ \A q \in InstanceCalls : q < r => ca.req[q].pc # "unsent"
    /\ ca' = instance(ca, r, id, allowCreate)
    /\ IF ca'.req[r].pc = "grabbing"
       THEN storeCall(CaNode, "grabLease", <<id>>, GrabCb(r, id))
       ELSE UNCHANGED <<luaVars, watchVars>>
    /\ ev' = NoEv /\ UNCHANGED ncalls /\ restUnchanged

\* second step of the waterfall of instance(), after grabLease called back
grabDone(c, r, res) ==
    LET id == c.req[r].id
    IN IF res = "remote"
       THEN deliver(c, r, "remote", 0)
       ELSE IF c.req[r].allowCreate
       THEN [c EXCEPT !.createQ[id] = Append(@, r), !.req[r].pc = "queued"]
       ELSE deliver(c, r, "cannotCreate", 0)

\* cron_lease cb0: every id reported gone is removed and shut down
RECURSIVE goneAll(_, _, _)
goneAll(c, gone, k) ==
    IF k = 0 THEN c
    ELSE LET c1 == goneAll(c, gone, k - 1)
             id == gone[k]
             g == c1.lookup[id]
         IN IF g # 0
            THEN [c1 EXCEPT !.lookup[id] = 0, !.objs[id][g].isShutdown = TRUE]
            ELSE c1

\* the node receives the next reply of the store
NodeReply ==
    /\ replies[CaNode] # <<>>
    /\ LET x == Head(replies[CaNode])
       IN ca' = IF x.task.cb.k = "grab"
                THEN grabDone(ca, x.task.cb.m, x.res)
                ELSE goneAll(ca, x.info, Len(x.info))
    /\ replies' = [replies EXCEPT ![CaNode] = Tail(@)]
    /\ ev' = NoEv
    /\ UNCHANGED <<impl, maxPending, owner, ttl, data, lastHolder, sent,
                   pendingUpdates, watchVars, ncalls>>

\* the worker of the creation queue of id takes the next request
factoryWorker(c, id) ==
    LET r == Head(c.createQ[id])
        c1 == [c EXCEPT !.createQ[id] = Tail(@)]
    IN IF c.lookup[id] # 0
       THEN deliver(c1, r, "ca", c.lookup[id])
       ELSE [c1 EXCEPT !.loading[id] = r, !.req[r].pc = "loading"]

FactoryWorker(id) ==
    /\ ca.createQ[id] # <<>>
    /\ ca.loading[id] = 0
    /\ ca' = factoryWorker(ca, id)
    /\ storeIdle

\* main.loadComponent has called back: on success the factory registers
\* the new agent and hands it to the caller
loadDone(c, id, ok) ==
    LET r == c.loading[id]
        c1 == [c EXCEPT !.loading[id] = 0]
    IN IF ok
       THEN deliver([c1 EXCEPT !.objs[id] = Append(@, NewObj),
                               !.lookup[id] = Len(c.objs[id]) + 1],
                    r, "ca", Len(c.objs[id]) + 1)
       ELSE deliver(c1, r, "error", 0)

\* the new agent reads its checkpoint with getState, which the store
\* refuses to a node that does not hold the lease
LoadDone(id, ok) ==
    /\ ca.loading[id] # 0
    /\ ok => (owner[id] = CaNode /\ Len(ca.objs[id]) < MaxObjs)
    /\ ca' = loadDone(ca, id, ok)
    /\ storeIdle

renewF_keepsShutdown(c) ==
    [c EXCEPT !.ncron = @ + 1,
              !.alive = SelectSeq(IdOrder, LAMBDA k : c.lookup[k] # 0)]

\* cron_lease.renewF up to the call of renewLeases
renewF(c) ==
    [c EXCEPT !.ncron = @ + 1,
              !.lookup = [k \in Ids |-> IF registeredShutdown(c, k)
                                        THEN 0 ELSE c.lookup[k]],
              !.alive = SelectSeq(IdOrder,
                            LAMBDA k : c.lookup[k] # 0
                                       /\ ~registeredShutdown(c, k))]

\* plug_lease.renewLeases: an empty list is answered at once
CronRun ==
    /\ ca.ncron < MaxCron
    /\ ca' = renewF(ca)
    /\ IF ca'.alive # <<>>
       THEN storeCall(CaNode, "renewLeases", ca'.alive, RenewCb)
       ELSE UNCHANGED <<luaVars, watchVars>>
    /\ ev' = NoEv /\ UNCHANGED ncalls /\ restUnchanged

\* an agent object takes a message (gen_ca.process refuses when shut down)
AgentBegin(id, g) ==
    /\ g \in DOMAIN ca.objs[id]
    /\ ~ca.objs[id][g].isShutdown /\ ~ca.objs[id][g].busy
    /\ ca' = [ca EXCEPT !.objs[id][g].busy = TRUE]
    /\ storeIdle

\* the transaction of the message ends; a failed one shuts the agent down
AgentEnd(id, g, fail) ==
    /\ g \in DOMAIN ca.objs[id]
    /\ ca.objs[id][g].busy
    /\ ca' = [ca EXCEPT !.objs[id][g].busy = FALSE,
                        !.objs[id][g].isShutdown = @ \/ fail]
    /\ storeIdle

\* another node asks for the lease of id
RivalGrabs(id) == ncalls < MaxRival /\ GrabLease(Rival, id)

\* the node hosts the agents of the ids in hosted and holds their leases
InitHosting(hosted) ==
    /\ InitStoreCommon
    /\ impl = "lua" /\ maxPending = 1
    /\ owner = [k \in Ids |-> IF k \in hosted THEN CaNode ELSE Nobody]
    /\ ttl = [k \in Ids |-> IF k \in hosted THEN LeaseTimeout ELSE 0]
    /\ lastHolder = [k \in Ids |-> IF k \in hosted THEN CaNode ELSE Nobody]
    /\ ca = NewNode(hosted)

\* SpecNode: clients ask the factory for the agent CaId, which the node does
\* not host at first
InitNode == InitHosting({})

NextNode ==
    \/ \E r \in InstanceCalls, allowCreate \in BOOLEAN :
          Instance(r, CaId, allowCreate)
    \/ NodeReply
    \/ FactoryWorker(CaId)
    \/ \E ok \in BOOLEAN : LoadDone(CaId, ok)
    \/ CronRun
    \/ \E g \in 1..MaxObjs : AgentBegin(CaId, g)
    \/ \E g \in 1..MaxObjs, fail \in BOOLEAN : AgentEnd(CaId, g, fail)
    \/ RivalGrabs(CaId)
    \/ \E n \in Nodes : LuaServe(n)
    \/ Tick

SpecNode == InitNode /\ [][NextNode]_vars

\* SpecCron: the node hosts the agents of both ids; the lease cron runs
\* while agents fail and leases expire or pass to the other node
InitCron == InitHosting(Ids)

NextCron ==
    \/ CronRun
    \/ NodeReply
    \/ \E id \in Ids : AgentBegin(id, 1)
    \/ \E id \in Ids, fail \in BOOLEAN : AgentEnd(id, 1, fail)
    \/ \E id \in Ids : RivalGrabs(id)
    \/ \E n \in Nodes : LuaServe(n)
    \/ Tick

SpecCron == InitCron /\ [][NextCron]_vars

\* SpecCronFair: SpecCron in which the timer of the cron keeps firing and
\* the store answers
FairCron ==
    /\ WF_vars(CronRun)
    /\ WF_vars(NodeReply)
    /\ WF_vars(LuaServe(CaNode))

SpecCronFair == SpecCron /\ FairCron

\* ===================================================================
\* SpecCoalesce: the scripted plug in coalescing mode.  The node calls
\* updateState, the update cron fires, the store answers, leases expire
\* and the plug is shut down.  In this specification ca is the plug:
\*   isShutdown  the flag of the plug
\*   ndone       how often the completion of each updateState call ran
\* ===================================================================
UpdCalls == 1..MaxCalls

NewPlug == [isShutdown |-> FALSE,
            ndone |-> [k \in UpdCalls |-> 0],
            applied |-> {}]

\* that.updateState(id, newValue, cb0), the k-th call; the calls modelled
\* are the ones made while the plug is up
CoalescedUpdate(id, v) ==
    /\ ncalls < MaxCalls
    /\ ~ca.isShutdown
    /\ updateState(CaNode, id, v, UpdCb(ncalls + 1, id))
    /\ ncalls' = ncalls + 1 /\ ev' = NoEv /\ ca' = ca /\ restUnchanged

\* the timer of newUpdateCron, which shutdown stops
UpdateCron == ~ca.isShutdown /\ CronFlush(CaNode)

\* the plug receives a reply; doLua asserts that the plug is not shut down,
\* so the retries of a failed batch are not issued after the shutdown
UpdateReply ==
    IF ca.isShutdown /\ replies[CaNode] # <<>>
       /\ Head(replies[CaNode]).task.cb.k = "batch"
       /\ Head(replies[CaNode]).err
    THEN /\ replies' = [replies EXCEPT ![CaNode] = Tail(@)]
         /\ ev' = NoEv
         /\ UNCHANGED <<impl, maxPending, owner, ttl, data, lastHolder, sent,
                        pendingUpdates, watchVars, ncalls, ca>>
    ELSE LuaReply(CaNode)

\* plug_checkpoint_lua.shutdown: the update cron is stopped
PlugShutdown ==
    /\ ~ca.isShutdown
    /\ ca' = [ca EXCEPT !.isShutdown = TRUE]
    /\ storeIdle

InitCoalesce ==
    /\ InitStoreCommon
    /\ impl = "lua" /\ maxPending > 1
    /\ owner = [k \in Ids |-> CaNode]
    /\ ttl = [k \in Ids |-> LeaseTimeout]
    /\ lastHolder = [k \in Ids |-> CaNode]
    /\ ca = NewPlug

NextCoalesce ==
    \/ \E id \in Ids, v \in Values : CoalescedUpdate(id, v)
    \/ UpdateCron
    \/ LuaServe(CaNode)
    \/ UpdateReply
    \/ PlugShutdown
    \/ Tick

SpecCoalesce == InitCoalesce /\ [][NextCoalesce]_vars

\* SpecCoalesceFair: the timer keeps firing until it is stopped and the
\* store answers
FairCoalesce ==
    /\ WF_vars(UpdateCron)
    /\ WF_vars(LuaServe(CaNode))
    /\ WF_vars(UpdateReply)

SpecCoalesceFair == SpecCoalesce /\ FairCoalesce

\* ===================================================================
\* SpecExec: the CASTaskExecutor of the watch-based plug.  CaNode submits
\* tasks to its executor while the rival's connection changes the leases.
\* In this specification ca is the caller of the executor:
\*   submitted   the calls made by CaNode, by number
\*   ndone       how often the callback of each call returned
\*   nrival      the calls made by the rival
\* caspc is "stalled" after a task callback threw: the queue runs its next
\* task when it is pushed to again.
\* ===================================================================
ExecOps == {"renewLeases", "getState", "updateState"}

NewCaller == [submitted |-> {},
              ndone |-> [k \in UpdCalls |-> 0],
              nrival |-> 0,
              applied |-> {}]

\* doIt(keys, op, cb): queue.push of the k-th task of CaNode
ExecCall(op, ids) ==
    /\ ncalls < MaxCalls
    /\ casq' = [casq EXCEPT ![CaNode] =
                   doIt(CaNode, op, ids,
                        IF op = "updateState"
                        THEN <<CHOOSE v \in Values : TRUE>> ELSE <<>>,
                        UpdCb(ncalls + 1, ids[1]))]
    /\ caspc' = [caspc EXCEPT ![CaNode] = IF @ = "stalled" THEN "idle" ELSE @]
    /\ ca' = [ca EXCEPT !.submitted = @ \cup {ncalls + 1}]
    /\ ncalls' = ncalls + 1
    /\ ev' = NoEv
    /\ UNCHANGED <<luaVars, watching, dirty, plan>>
    /\ restUnchanged

\* the rival node grabs a lease through its own connection
RivalCall(id) ==
    /\ ca.nrival < MaxRival
    /\ casq' = [casq EXCEPT ![Rival] =
                   doIt(Rival, "grabLease", <<id>>, <<>>, EnvCb)]
    /\ ca' = [ca EXCEPT !.nrival = @ + 1]
    /\ ev' = NoEv
    /\ UNCHANGED <<luaVars, caspc, watching, dirty, plan, ncalls>>
    /\ restUnchanged

\* the callbacks of getState and renewLeases read data[0] and data.forEach
\* of the reply of a discarded EXEC, which is null
CallbackThrows(n) ==
    /\ caspc[n] = "built"
    /\ dirty[n]
    /\ Head(casq[n]).op \in {"getState", "renewLeases"}

\* multi.exec(cb0) whose reply makes the callback of the task throw
ExecThrows(n) ==
    /\ CallbackThrows(n)
    /\ casq' = [casq EXCEPT ![n] = Tail(@)]
    /\ caspc' = [caspc EXCEPT ![n] = "stalled"]
    /\ watching' = [watching EXCEPT ![n] = {}]
    /\ dirty' = [dirty EXCEPT ![n] = FALSE]
    /\ plan' = [plan EXCEPT ![n] = NoPlan]
    /\ ev' = Event(n, Head(casq[n]).op, Head(casq[n]).ids, "threw", <<>>,
                   {}, FALSE, TRUE, TRUE)
    /\ UNCHANGED <<luaVars, ncalls, ca>>
    /\ restUnchanged

\* multi.exec(cb0) whose reply the callback of the task handles
ExecReturns(n) == ~CallbackThrows(n) /\ CasExec(n)

InitExec ==
    /\ InitStoreCommon
    /\ impl = "watch"
    /\ owner = [k \in Ids |-> IF k = CaId THEN CaNode ELSE Nobody]
    /\ ttl = [k \in Ids |-> IF k = CaId THEN LeaseTimeout ELSE 0]
    /\ lastHolder = [k \in Ids |-> IF k = CaId THEN CaNode ELSE Nobody]
    /\ ca = NewCaller

NextExec ==
    \/ \E op \in ExecOps \ {"renewLeases"}, id \in ReadIds :
          ExecCall(op, <<id>>)
    \/ \E ids \in RenewLists : ExecCall("renewLeases", ids)
    \/ \E id \in Ids : RivalCall(id)
    \/ \E n \in Nodes : CasWatch(n)
    \/ \E n \in Nodes : CasRead(n)
    \/ \E n \in Nodes : ExecReturns(n)
    \/ \E n \in Nodes : ExecThrows(n)
    \/ Tick

SpecExec == InitExec /\ [][NextExec]_vars

\* SpecExecFair: redis answers every command and the queue runs its worker
FairExec ==
    \A n \in Nodes :
        /\ WF_vars(CasWatch(n))
        /\ WF_vars(CasRead(n))
        /\ WF_vars(ExecReturns(n))
        /\ WF_vars(ExecThrows(n))

SpecExecFair == SpecExec /\ FairExec

\* ===================================================================
\* SpecProgress: SpecQueue in which the ripper asks the CA for progress; the
\* clients send requests
\* ===================================================================
\* the messages whose processing has completed, and the ones that wait in
\* the queue or are being processed
Completed(c) == {m \in Msgs : "begin" \in c.hist[m] /\ c.ncb[m] > 0}
Outstanding(c) ==
    {m \in Msgs : c.mpc[m] = "queued" \/ ("begin" \in c.hist[m] /\ c.ncb[m] = 0)}

\* queue.length() of async.queue: the tasks that wait for the worker
queueLength(c) == Len(c.queue)

\* gen_ca.progress
progress(c) ==
    [c EXCEPT !.progress = ~(c.messagesProcessed = c.lastMessagesProcessed
                             /\ queueLength(c) > 0),
              !.lastMessagesProcessed = c.messagesProcessed,
              !.nprogress = @ + 1,
              !.completedBefore = Cardinality(Completed(c))]

Progress ==
    /\ ca.nprogress < MaxChecks
    /\ ca' = progress(ca)
    /\ storeIdle

NextProgress ==
    \/ \E m \in Msgs : Process(m, "request")
    \/ Pipeline
    \/ LuaServe(CaNode)
    \/ LuaReply(CaNode)
    \/ Progress

SpecProgress == InitQueue /\ [][NextProgress]_vars

\* ===================================================================
\* SpecAbsorb: SpecTerm in which the CA is also shut down from outside, at
\* any time and any number of times, and destroyed.  The clients send
\* requests.
\* ===================================================================
\* gen_ca.shutdown called by the lease cron, the ripper or the factory,
\* whether or not the CA is already shut down
ShutdownAnyTime ==
    /\ ca' = shutdown(ca)
    /\ storeIdle

NextAbsorb ==
    \/ \E m \in Msgs : Process(m, "request")
    \/ \E m \in Msgs : Terminate(m)
    \/ Pipeline
    \/ LuaServe(CaNode)
    \/ LuaReply(CaNode)
    \/ ShutdownAnyTime
    \/ Destroy

SpecAbsorb == InitQueue /\ [][NextAbsorb]_vars

\* ===================================================================
\* Claims about the checkpoint store (checked under SpecStore)
\* ===================================================================

\* C1: whenever a grabLease call completes, a caller told success is the node
\* the stored binding names, and a caller told {remoteNode: m} is told the
\* node that actually held the binding when the store decided.
C1_GrabLeaseMutualExclusion ==
    [][(ev'.op = "grabLease" /\ ev'.final) =>
          /\ ev'.res \in {"ok", "remote"}
          /\ ev'.res = "ok" => owner'[ev'.ids[1]] = ev'.node
          /\ ev'.res = "remote" =>
                /\ owner[ev'.ids[1]] \notin {Nobody, ev'.node}
                /\ ev'.info[1] = owner[ev'.ids[1]]]_vars

C4_RenewalFidelity ==
    [][(ev'.op = "renewLeases" /\ ev'.final) =>
          /\ ev'.res = "gone"
          /\ \A i \in DOMAIN ev'.ids :
                LET id == ev'.ids[i]
                IN /\ owner[id] # ev'.node =>
                         /\ id \in SeqToSet(ev'.info)
                         /\ ttl'[id] <= ttl[id]
                   /\ id \notin SeqToSet(ev'.info) =>
                         ttl'[id] = LeaseTimeout]_vars

\* ===================================================================
\* Claims about the message pipeline of a CA
\* ===================================================================
NormalReplies == {"appOk", "appErr", "null"}
NewTags(m) == ca'.hist[m] \ ca.hist[m]
Accepted(m) == ca.mpc[m] \notin {"unsent", "refused"}
Terminal(m) == ca.hist[m] \cap {"commitOk", "abortOk", "forcedShutdown"} # {}

\* C5: when the caller of process(msg) has received a normal reply for a
\* message that went through prepare, the store has applied the write that
\* carries the snapshot of that message.
C5_ReplyImpliesDurable ==
    \A m \in Msgs :
        (/\ ca.alreadyCalled[m]
         /\ ca.reply[m] \in NormalReplies
         /\ "prepare" \in ca.hist[m]) => m \in ca.applied

\* C6: a phase of message m2 starts only after every message enqueued before
\* it has had a terminal phase (commit, abort or forced shutdown) completed
\* and its completion delivered; the worker takes the messages in enqueue
\* order and never has more than one in flight.
C6_PerAgentOrdering ==
    [][/\ ca'.workers <= 1
       /\ \A m1, m2 \in Msgs :
             (/\ m1 < m2
              /\ Accepted(m1)
              /\ NewTags(m2) \ {"waited"} # {}) =>
                /\ ca.alreadyCalled[m1]
                /\ Terminal(m1)
                /\ "begin" \in ca.hist[m1]]_vars

\* C6 witness: the second message was enqueued while the first was in flight
\* and has started after the completion of the first was delivered.
C6_Witness ==
    /\ "waited" \in ca.hist[2]
    /\ "begin" \in ca.hist[2]
    /\ ca.alreadyCalled[1]

\* C7: the phases of a message run in the order begin, dispatch, prepare,
\* persist, commit, each only after the previous one succeeded; abort starts
\* only after a failure of begin, dispatch or prepare, and a forced shutdown
\* only after a failure of persist, commit or abort.
C7_PhaseOrder ==
    [][\A m \in Msgs :
          /\ "invoked" \in NewTags(m) => "beginDone" \in ca'.hist[m]
          /\ "prepare" \in NewTags(m) =>
                /\ "dispatchOk" \in ca'.hist[m]
                /\ "dispatchErr" \notin ca'.hist[m]
          /\ "persistIssued" \in NewTags(m) => "prepareOk" \in ca'.hist[m]
          /\ "commit" \in NewTags(m) => "persistOk" \in ca'.hist[m]
          /\ ca'.nabort[m] > ca.nabort[m] =>
                /\ "persistIssued" \notin ca'.hist[m]
                /\ ca'.hist[m] \cap {"beginErr", "shutdown1", "dispatchErr",
                                     "prepareErr", "exception"} # {}
          /\ "forcedShutdown" \in NewTags(m) =>
                ca'.hist[m] \cap {"persistErr", "commitErr", "abortErr"} # {}
      ]_vars

\* C8: once updateState or a child's commit has reported an error for a
\* message, abort has not been invoked for it, the CA is shut down, the
\* caller has received a shutdownCA system error, and every process() call
\* from then on is refused.
C8_PersistFailureForcesShutdown ==
    [][\A m \in Msgs :
          ca'.hist[m] \cap {"persistErr", "commitErr"} # {} =>
              /\ ca'.nabort[m] = 0
              /\ ca'.isShutdown
              /\ ca'.alreadyCalled[m] /\ ca'.reply[m] = "shutdownCA"
              /\ \A m2 \in Msgs :
                    (ca.mpc[m2] = "unsent" /\ ca'.mpc[m2] # "unsent") =>
                        ca'.mpc[m2] = "refused"]_vars

\* C9: the reply to a message whose persist phase failed is a system error
\* with code checkpointFailure, and with code commitFailure when its commit
\* phase failed.
C9_FailureReplyCode ==
    \A m \in Msgs :
        ca.alreadyCalled[m] =>
            /\ "persistErr" \in ca.hist[m] =>
                  ca.reply[m] = "checkpointFailure"
            /\ "commitErr" \in ca.hist[m] => ca.reply[m] = "commitFailure"

\* C10: when a message whose prepare failed completes, the state and the
\* version of the handler are those of the begin of the message, no
\* checkpoint write was issued for it, the failure has not shut the CA down
\* and the caller receives a prepareFailure system error.
C10_PrepareFailureRestores ==
    [][\A m \in Msgs :
          (/\ ~ca.alreadyCalled[m]
           /\ ca'.alreadyCalled[m]
           /\ "prepareErr" \in ca'.hist[m]) =>
              /\ <<ca'.state, ca'.version>> = ca'.s0[m]
              /\ "persistIssued" \notin ca'.hist[m]
              /\ "forcedShutdown" \notin ca'.hist[m]
              /\ ca'.reply[m] = "prepareFailure"]_vars

C12_DispatchExceptionAborts ==
    \A m \in Msgs :
        ca.hist[m] \cap {"threw", "dispatchExc"} # {} =>
            /\ ca.nabort[m] >= 1
            /\ ca.alreadyCalled[m] => ca.reply[m] = "exceptionThrown"
            /\ "persistIssued" \notin ca.hist[m]

\* C13: when abort itself fails while a message is rolled back (a child's
\* abort reports an error or throws) the CA is forced into shutdown, the
\* caller receives the shutdownCA system error, and once the CA is shut down
\* no message is dispatched to the handler any more.
C13_AbortFailureForcesShutdown ==
    [][/\ \A m \in Msgs :
             (/\ ca'.hist[m] \cap {"abortErr", "abortThrew"} # {}
              /\ ca'.alreadyCalled[m]) =>
                 /\ ca'.isShutdown
                 /\ ca'.reply[m] = "shutdownCA"
       /\ ca.isShutdown => \A m \in Msgs : "invoked" \notin NewTags(m)]_vars

C15_SingleTerminalOutcome ==
    \A m \in Msgs :
        /\ ca.nabort[m] <= 1
        /\ ~("commit" \in ca.hist[m] /\ ca.nabort[m] >= 1)
        /\ Cardinality(ca.hist[m] \cap
                       {"commitOk", "abortOk", "forcedShutdown"}) <= 1

C17_Coalescing ==
    [][impl = "lua" =>
        \A n \in Nodes :
          LET pu == pendingUpdates[n]
              pu2 == pendingUpdates'[n]
              s == sent[n]
              s2 == sent'[n]
              grown == Len(s2) = Len(s) + 1 /\ SubSeq(s2, 1, Len(s)) = s
              t == s2[Len(s2)]
          IN /\ Len(pu2) < maxPending
             /\ (maxPending > 1 /\ pu2 # pu) =>
                   \/ /\ ncalls' = ncalls + 1
                      /\ Len(pu2) = Len(pu) + 1
                      /\ SubSeq(pu2, 1, Len(pu)) = pu
                      /\ s2 = s
                   \/ /\ ncalls' = ncalls + 1
                      /\ pu2 = <<>> /\ Len(pu) = maxPending - 1
                      /\ grown
                      /\ t.op = "updateState" /\ t.cb.k = "batch"
                      /\ Len(t.ids) = maxPending
                      /\ SubSeq(t.ids, 1, Len(pu)) = PendingIds(pu)
                      /\ SubSeq(t.args, 1, Len(pu)) = PendingValues(pu)
                      /\ Len(t.args) = maxPending
                   \/ /\ ncalls' = ncalls
                      /\ ev'.op = "cron" /\ ev'.node = n
                      /\ pu2 = <<>>
                      /\ s2 = Append(s, Task("updateState", PendingIds(pu),
                                             PendingValues(pu),
                                             BatchCb(PendingCbs(pu))))
             /\ (ev'.op = "cron" /\ ev'.node = n /\ pu = <<>>) =>
                   s2 = s /\ pu2 = <<>>
             /\ (pu2 = pu /\ replies'[n] = replies[n] /\ grown) =>
                   /\ t.op = "updateState" => maxPending = 1
                   /\ t.cb.k # "batch"
             /\ (maxPending = 1 /\ grown /\ t.op = "updateState") =>
                   Len(t.ids) = 1 /\ t.cb.k # "batch"
             /\ (maxPending = 1 /\ ncalls' = ncalls + 1) =>
                   \E n2 \in Nodes :
                       /\ Len(sent'[n2]) = Len(sent[n2]) + 1
                       /\ SubSeq(sent'[n2], 1, Len(sent[n2])) = sent[n2]]_vars

\* C17 witness: a write that carries two distinct ids is in flight, issued
\* by the second of two calls, and nothing is pending.
C17_Witness ==
    \E n \in Nodes :
        /\ maxPending = MaxPendingUpdates
        /\ pendingUpdates[n] = <<>>
        /\ sent[n] # <<>>
        /\ LET t == sent[n][Len(sent[n])]
           IN /\ t.op = "updateState" /\ t.cb.k = "batch"
              /\ Len(t.ids) = maxPending
              /\ t.ids[1] # t.ids[2]
        /\ ev.op # "cron"

C19_CheckpointRoundTrip ==
    [][(/\ ~ca.handed /\ ca'.handed
        /\ ca'.orig.init /\ ca'.orig.nmsg = 1
        /\ ca'.nresume = 1 /\ ca'.outcome = "committed") =>
          <<ca'.state, ca'.version>> = ca'.orig.term]_vars

\* C20: for every agent object exactly one of init and resume runs, resume
\* exactly when getState returned a stored checkpoint; the body of
\* __ca_init__ / __ca_resume__ runs at most once, inside the transaction of
\* the first message and after init or resume was called; and an agent that
\* has been handed to the caller of the factory has run the body once and has
\* had the first-message transaction checkpointed and committed.
C20_InitOrResumeOnce ==
    /\ ca.ninit + ca.nresume <= 1
    /\ ca.pc \notin {"created", "gotState", "failed"} =>
          /\ ca.ninit + ca.nresume = 1
          /\ ca.nresume = 1 <=> ca.cpRead # NoData
    /\ ca.nbody <= 1
    /\ ca.nbody = 1 => ca.bodyIn = "first" /\ ca.ninit + ca.nresume = 1
    /\ ca.handed => /\ ca.nbody = 1
                    /\ ca.outcome = "committed"
                    /\ data[CaId] # NoData

\* ===================================================================
\* Claims about destroy, terminate and the lease of a CA
\* ===================================================================

\* C21: once destroy has completed successfully no checkpoint record exists
\* for the CA, whatever messages were queued or in flight when destroy was
\* called, and none reappears afterwards.
C21_DestroyDeletesCheckpoint ==
    ca.destroy = "done" => data[CaId] = NoData

\* C22: once destroy has completed successfully the binding of the CA to the
\* destroying node is no longer in the store.
C22_DestroyReleasesLease ==
    ca.destroy = "done" => owner[CaId] # CaNode

\* C23: every grabLease call that reports success, the caller already
\* owning the binding included, leaves the binding equal to the caller's
\* node with its expiration reset to the lease timeout.
C23_GrabLeaseResetsExpiration ==
    [][(ev'.op = "grabLease" /\ ev'.final /\ ev'.res = "ok") =>
          /\ owner'[ev'.ids[1]] = ev'.node
          /\ ttl'[ev'.ids[1]] = LeaseTimeout]_vars

RecoverableNames ==
    {"noSuchCA", "shutdownCA", "checkpointFailure", "prepareFailure",
     "internalError"}

\* the message is a well-formed system error
WellFormedSystemError ==
    /\ ca.msg.shape = "error" /\ ca.msg.jsonrpc = "2.0"
    /\ ca.msg.code # 0 /\ ca.msg.dataLen = 2 /\ ca.msg.id # 0

\* C25 as stated: isErrorRecoverable answers true exactly for a system error
\* whose code is no-such-agent, shutdown-agent, checkpoint-failure,
\* prepare-failure or internal-error, and false for every other code and
\* for every message that is not a system error.
C25_RecoverableExactlyFive ==
    ca.asked =>
        (ca.recoverable <=>
            /\ WellFormedSystemError
            /\ \E k \in RecoverableNames : ca.msg.code = ERROR_CODES[k])

\* C25 amended: isErrorRecoverable answers true exactly for a system error
\* whose code is no-such-agent, shutdown-agent, checkpoint-failure,
\* prepare-failure, commit-failure or internal-error, and false for every
\* other code and for every message that is not a system error.
C25_RecoverableExactlySix ==
    ca.asked =>
        (ca.recoverable <=>
            /\ WellFormedSystemError
            /\ \E k \in RecoverableNames \cup {"commitFailure"} :
                   ca.msg.code = ERROR_CODES[k])

\* C25 witness: the caller asked about a commit-failure system error and was
\* told that it is recoverable.
C25_Witness ==
    /\ ca.asked /\ ca.recoverable
    /\ WellFormedSystemError
    /\ ca.msg.code = ERROR_CODES.commitFailure

\* ===================================================================
\* Claims about the two checkpoint plugs side by side (SpecStore)
\* ===================================================================
\* The two plugs run side by side agree until the first call they answer
\* differently, so up to that call they hold the same store, and the script
\* of the call, applied to the store the watch plug has when it answers,
\* is what the scripted plug answers and leaves.

\* the bindings of the task's keys are what the MGET of the task returned
\* (no lease among them expired in between)
SameAsRead(n, t, p) ==
    CASE t.op \in {"updateState", "deleteState", "getState"} ->
           \A i \in DOMAIN t.ids : owner[t.ids[i]] = n
      [] t.op = "grabLease" ->
           owner[t.ids[1]] = (IF p.cmds = <<>> THEN n ELSE Nobody)
      [] t.op = "renewLeases" ->
           \A i \in DOMAIN t.ids :
               (owner[t.ids[i]] = n) <=> (t.ids[i] \in SeqToSet(p.alive))

\* the answer of a call of the watch plug and the store it leaves are those
\* of the script of the same call
AnswersAsScript(n, t) ==
    LET r == luaAll(n, t)
    IN /\ ev'.res = r.res
       /\ r.res \in {"value", "gone"} => ev'.info = r.info
       /\ owner' = r.owner /\ ttl' = r.ttl /\ data' = r.data

\* C26: a call of the watch plug returns the outcome, and leaves the lease
\* bindings and the data records, that the scripted plug returns and leaves
\* for the same call on the same store.  The calls compared are those that
\* end at the MGET, and those that end at the EXEC when the leases are as
\* the MGET read them or when the EXEC carried commands or a reply to read.
C26_PlugsEquivalent ==
    [][\A n \in Nodes :
          /\ (caspc[n] = "watched" /\ caspc'[n] = "idle") =>
                 AnswersAsScript(n, Head(casq[n]))
          /\ (caspc[n] = "built" /\ caspc'[n] = "idle"
              /\ \/ SameAsRead(n, Head(casq[n]), plan[n])
                 \/ /\ dirty[n]
                    /\ ~(Head(casq[n]).op = "grabLease"
                         /\ plan[n].cmds = <<>>)) =>
                 AnswersAsScript(n, Head(casq[n]))]_vars

\* ===================================================================
\* Claims about what follows the checkpoint write of a message
\* ===================================================================
\* C27: once the checkpoint write of a message has been issued to the store
\* no child's __ca_abort__ is invoked for that message any more, whether
\* updateState or commit report an error or an exception is raised, so the
\* state in memory is never rolled back to the backup of the message.
C27_NoAbortAfterPersistIssued ==
    [][\A m \in Msgs :
          "persistIssued" \in ca.hist[m] =>
              ca'.nabort[m] = ca.nabort[m]]_vars

\* the phases of a message that follow the call of its method
LaterPhases == {"prepare", "persistIssued", "commit"}

\* message m is inside its transaction: begun and not yet completed
InTransaction(c, m) == "begin" \in c.hist[m] /\ ~c.alreadyCalled[m]

\* C28: after the completion of a message has been delivered, its prepare,
\* updateState and commit do not run while a later message of the same CA
\* is in its own transaction.
C28_NoPhaseAfterCompletion ==
    [][\A m, m2 \in Msgs :
          (m < m2 /\ ca.alreadyCalled[m] /\ InTransaction(ca, m2)) =>
              ca'.hist[m] \cap LaterPhases = ca.hist[m] \cap LaterPhases]_vars

\* C29: once the isShutdown flag of the CA is set, no message of the CA
\* issues its checkpoint write or runs its commit any more, in particular
\* not the message that was in flight when the flag was set.
C29_NoCheckpointAfterShutdown ==
    [][\A m \in Msgs :
          ca.isShutdown =>
              ca'.hist[m] \cap {"persistIssued", "commit"}
                  = ca.hist[m] \cap {"persistIssued", "commit"}]_vars

\* C30: a message that waited in the input queue and finds the CA shut down
\* when it is dequeued is never dispatched to the method, prepared,
\* checkpointed or committed; it completes with a shutdownCA system error
\* and leaves the state of the CA as it found it.  Stated for the runs in
\* which no child fails and nothing throws.
C30_QueuedMessageRefusedAfterShutdown ==
    \A m \in Msgs :
        ({"waited", "shutdown1"} \subseteq ca.hist[m] /\ ca.faults = 0) =>
            /\ ca.hist[m] \cap {"invoked", "prepare", "persistIssued",
                                "commit"} = {}
            /\ m \notin ca.applied
            /\ ca.alreadyCalled[m] =>
                  /\ ca.reply[m] = "shutdownCA"
                  /\ <<ca.state, ca.version>> = ca.s0[m]

\* ===================================================================
\* Claims about notifications, the lease cron and the factory
\* ===================================================================
\* C31: a message whose method reported an error, was not found or threw
\* synchronously is aborted and writes no checkpoint, whether it is a
\* request or a notification.
C31_DispatchErrorAbortsAnyKind ==
    \A m \in Msgs :
        "dispatchErr" \in ca.hist[m] =>
            /\ ca.hist[m] \cap {"prepare", "persistIssued", "commit"} = {}
            /\ m \notin ca.applied

\* the cron of the node runs in this step
CronStep == ca'.ncron = ca.ncron + 1

\* the ids the cron asks the store to renew in this step
AskedNow ==
    IF sent'[CaNode] # sent[CaNode]
    THEN SeqToSet(sent'[CaNode][Len(sent'[CaNode])].ids) ELSE {}

\* the node has an agent object for id that is not shut down
LiveAgent(id) == \E g \in DOMAIN ca.objs[id] : ~ca.objs[id][g].isShutdown

\* the cron callback handles a reply of renewLeases in this step
GoneStep ==
    /\ replies[CaNode] # <<>>
    /\ Head(replies[CaNode]).task.cb.k = "renew"
    /\ replies'[CaNode] = Tail(replies[CaNode])

\* (a), (b) and (c) of C32
CronSafety ==
    /\ CronStep =>
          /\ \A id \in Ids : registeredShutdown(ca, id) =>
                 ca'.lookup[id] = 0 /\ id \notin AskedNow
          /\ AskedNow = {id \in Ids : ca.lookup[id] # 0
                                      /\ ~registeredShutdown(ca, id)}
    /\ GoneStep =>
          \A id \in SeqToSet(Head(replies[CaNode]).info) :
              /\ ca'.lookup[id] = 0
              /\ \A g \in DOMAIN ca'.objs[id] : ca'.objs[id][g].isShutdown

\* the node lost the lease of id and ends up without a live agent for it
\* (as long as the timer of the cron has runs left)
LostLeaseShutsDown ==
    \A id \in Ids :
        (owner[id] # CaNode /\ ca.ncron < MaxCron) ~> ~LiveAgent(id)

\* the store refreshes, for the node, the lease of an agent in this step
RenewedNow(id) ==
    /\ ev'.op = "renewLeases" /\ ev'.node = CaNode /\ ev'.final
    /\ id \in SeqToSet(ev'.ids) /\ owner[id] = CaNode

C33_OneAgentPerId ==
    /\ [](\A id \in Ids :
            \A g, h \in DOMAIN ca.objs[id] :
                (~ca.objs[id][g].isShutdown /\ ~ca.objs[id][h].isShutdown)
                    => g = h)
    /\ [][\A id \in Ids :
             Len(ca'.objs[id]) > Len(ca.objs[id]) =>
                 \A g \in DOMAIN ca.objs[id] : ~ca.objs[id][g].busy]_vars

\* a call of instance() that found a shut-down agent registered has ended
EndedAfterShutdownEntry(r) ==
    ca.req[r].foundShutdown /\ ca.req[r].pc = "done"

\* C34: a call of instance() that finds a shut-down agent registered removes
\* the entry and then behaves as a call on a missing id with the same
\* allowCreate: it creates the agent only if the caller allowed it, and it
\* delivers the result or the error to cb0 exactly once.
C34_ShutdownEntryAsMissing ==
    \A r \in InstanceCalls :
        /\ (ca.req[r].foundShutdown /\ ca.req[r].pc \in {"queued", "loading"})
               => ca.req[r].asked
        /\ EndedAfterShutdownEntry(r) => ca.req[r].ncb = 1

\* ===================================================================
\* Claims about the coalescing plug, the task queue and progress
\* ===================================================================
\* C35: in coalescing mode the completion of every updateState call is
\* invoked exactly once: never twice, and eventually once, whatever the
\* sequence of calls, timer ticks, store replies and a shutdown of the plug.
C35_EveryUpdateCompletes ==
    /\ [](\A k \in UpdCalls : ca.ndone[k] <= 1)
    /\ \A k \in UpdCalls : (ncalls >= k) ~> (ca.ndone[k] = 1)

\* the checkpoint updates of agent id that node n has accepted and not yet
\* completed: entries of the pending batch, entries of writes sent to the
\* store (batched, single or retried) and entries of replies whose callback
\* has not run yet
OpenUpdates(n, id) ==
    {<<"pending", i, 1>> : i \in {j \in DOMAIN pendingUpdates[n] :
                                     pendingUpdates[n][j].id = id}}
    \cup {x \in {"sent"} \X (DOMAIN sent[n]) \X (1..MaxCalls) :
             /\ sent[n][x[2]].op = "updateState"
             /\ x[3] \in DOMAIN sent[n][x[2]].ids
             /\ sent[n][x[2]].ids[x[3]] = id}
    \cup {x \in {"reply"} \X (DOMAIN replies[n]) \X (1..MaxCalls) :
             /\ replies[n][x[2]].task.op = "updateState"
             /\ x[3] \in DOMAIN replies[n][x[2]].task.ids
             /\ replies[n][x[2]].task.ids[x[3]] = id}

\* C36: at any time at most one checkpoint update per agent id is pending
\* or in flight on a node, in the pending batch, in a batched write or in
\* an individual retry.
C36_OneOpenUpdatePerId ==
    \A id \in Ids : Cardinality(OpenUpdates(CaNode, id)) <= 1

\* one window at a time: nothing is watched and no MULTI is built while the
\* executor is between tasks, and a WATCH is issued only then
OneWindow ==
    /\ [](\A n \in Nodes : caspc[n] \in {"idle", "stalled"} =>
              watching[n] = {} /\ plan[n] = NoPlan)
    /\ [][\A n \in Nodes :
              caspc'[n] = "watched" /\ caspc[n] # "watched" =>
                  caspc[n] = "idle" /\ watching[n] = {} /\ plan[n] = NoPlan
         ]_vars

\* submission order: a callback returns for the task at the head of the
\* queue, whose window is open, and the queue holds the calls in order
SubmissionOrder ==
    /\ [](\A i, j \in DOMAIN casq[CaNode] :
              i < j => casq[CaNode][i].cb.m < casq[CaNode][j].cb.m)
    /\ [][\A k \in UpdCalls :
              ca'.ndone[k] > ca.ndone[k] =>
                  /\ casq[CaNode] # <<>> /\ Head(casq[CaNode]).cb.m = k
                  /\ caspc[CaNode] \in {"watched", "built"}
                  /\ caspc'[CaNode] = "idle" /\ watching'[CaNode] = {}
         ]_vars

\* every task submitted to the executor has its callback invoked, once
EveryTaskAnswered ==
    /\ [](\A k \in UpdCalls : ca.ndone[k] <= 1)
    /\ \A k \in UpdCalls : (k \in ca.submitted) ~> (ca.ndone[k] = 1)

\* C37: in the watch-based store the operations of a connection run one at
\* a time in submission order: at most one watch-read-multi-exec window is
\* open, it is closed before the next watch is issued, and the callback of
\* every submitted task is eventually invoked.
C37_SerialExecutor == OneWindow /\ SubmissionOrder /\ EveryTaskAnswered

\* C38: progress() returns false exactly when a message is outstanding for
\* the agent, waiting or being processed, and no message has completed
\* processing since the previous call of progress().  The first call, which
\* has no previous one, is left out.
C38_ProgressReportsHungAgent ==
    [][ca.nprogress >= 1 /\ ca'.nprogress > ca.nprogress =>
          (ca'.progress = FALSE <=>
              /\ Outstanding(ca) # {}
              /\ Cardinality(Completed(ca)) = ca.completedBefore)]_vars

\* ===================================================================
\* Claims about the shutdown of a CA
\* ===================================================================
\* message m passed the shutdown test and was handed to json_rpc.call
ReachedCall(c, m) ==
    /\ "beginDone" \in c.hist[m]
    /\ "shutdown1" \notin c.hist[m]

\* C39: shutdown is absorbing: once isShutdown is true no operation sets it
\* back to false (process, terminate, destroy, another shutdown, late
\* callbacks of messages in flight), and no message is handed to the handler
\* of the CA from then on.
C39_ShutdownAbsorbing ==
    [][ca.isShutdown =>
          /\ ca'.isShutdown
          /\ \A m \in Msgs :
                /\ ReachedCall(ca', m) => ReachedCall(ca, m)
                /\ "invoked" \in ca'.hist[m] => "invoked" \in ca.hist[m]
      ]_vars

\* the CA was shut down while message 1 waited for its begin, which then
\* called back and was stopped at the shutdown test; message 2, sent later,
\* was refused; and the CA was destroyed
C39_Witness ==
    /\ ca.isShutdown
    /\ "shutdown1" \in ca.hist[1]
    /\ ca.mpc[2] = "refused"
    /\ ca.destroy # "none"

====
